---------------------------- MODULE Spec2Model ----------------------------
(***************************************************************************)
(* State-machine model of the STM32 bare-metal C drivers: the UART driver  *)
(* (PeriphUart.c) with its interrupt handlers, and the parts of the RCC,   *)
(* AFIO and SysTick drivers it calls.                                      *)
(*                                                                         *)
(* Execution model: one core.  Application calls are split into the steps  *)
(* between which an interrupt can be taken; an interrupt handler runs to   *)
(* completion (all UART lines have priority 0, SysTick the lowest one), so *)
(* a handler is one atomic action, and application code does not advance   *)
(* while an enabled UART interrupt is pending.                             *)
(***************************************************************************)
EXTENDS Integers, Sequences, FiniteSets, TLC

\* ------------------------------------------------------------------------
\* Program constants
\* ------------------------------------------------------------------------
UART_DEFAULT_TIMEOUT == 1000
UART_RX_BUFFER_SIZE == 256
UART_INTERFACES_AMOUNT == 3
MAXIMAL_STEP_SIZE == 1000
DEFAULT_XTAL_FREQUENCY == 8000000

kUart1 == 0
kUart2 == 1
kUart3 == 2

kUart1TxPA9_RxPA10 == 0
kUart1TxPB6_RxPB7 == 1
kUart2TxPA2_RxPA3 == 2
kUart2TxPD5_RxPD6 == 3
kUart3TxPB10_RxPB11 == 4
kUart3TxPC10_RxPC11 == 5
kUart3TxPD8_RxPD9 == 6

kAfioA == 0
kAfioB == 1
kAfioC == 2
kAfioD == 3

kAfioInputPullDown == 0
kAfioInputPullUp == 1
kAfioPushPull == 2
kAfioOpenDrain == 3
kAfioInputNoPull == 4

kBaud9600 == 9600

kClock8MHz == 0
kClock16MHz == 1
kClock32MHz == 3
kClock48MHz == 5

kTickMicrosecs == 0
kTickMillisecs == 1

\* RtcSource
kLseSource == 1
kLsiSource == 2
kHseDiv128 == 3

\* DEFAULT_SECONDS_VALUE is (uint64_t)-1, the largest value of the counter;
\* it is written -1 here and the counter is kept modulo 2^64, so that the
\* increment of -1 is 0.
DEFAULT_SECONDS_VALUE == -1

\* Width of uint16_t (l_index, l_bytesToBeRead, size, the cursors).
UINT16_MOD == 65536

\* ------------------------------------------------------------------------
\* Bounds of the model
\* ------------------------------------------------------------------------
\* Bytes the line delivers to an instance in the interleaving specifications.
MaxRx == 4
\* Bytes the line delivers in the burst specification (fills the whole ring
\* buffer and one byte more).
MaxBurst == 257
\* Largest buffer a caller passes to Uart_Send.
MaxSendSize == 2
\* Bytes each line delivers in the specifications that start from reset.
MaxIrqRx == 2
\* Ticks that may elapse while the application is not waiting on the
\* transmitter (software steps are short against a tick).
MaxJitter == 1

Instances == 0 .. (UART_INTERFACES_AMOUNT - 1)
Mappings == kUart1TxPA9_RxPA10 .. kUart3TxPD8_RxPD9
Bauds == {kBaud9600}
CoreClocks == {kClock48MHz}
Contexts == {"main"}
\* Every caller of the driver: main(), and a second context that preempts
\* it and makes driver calls of its own.
Callers == {"main", "task"}
RingIndex == 0 .. (UART_RX_BUFFER_SIZE - 1)

\* Cursor positions an initialized, drained channel starts the interleaving
\* specification from: right after Uart_Init, and two bytes before the wrap.
RingStarts == {0, UART_RX_BUFFER_SIZE - 2}

\* Marker for "the transmitter never raises TXE again".
Never == -1

VARIABLES
    s_uart,     \* UartHandler s_uart[3]
    usart,      \* USART1..3 register blocks (the bits the driver uses)
    nvic,       \* NVIC enable bit of USART1..3_IRQn
    rccUartEn,  \* RCC APB1ENR/APB2ENR USARTxEN bits
    rccIopEn,   \* RCC APB2ENR IOPxEN bits (set of ports)
    afioMapr,   \* AFIO->MAPR USARTx_REMAP fields
    gpio,       \* GPIOx CRL/CRH mode and cnf bits of the UART pins
    s_mcu,      \* SystemInfo s_mcu
    s_sysTick,  \* SysTickHandler s_sysTick
    app,        \* per application context: position and locals of its call
    sysTickHw,  \* SysTick->LOAD and the SysTick enable bit
    line,       \* environment: the serial lines and transmit shift registers
    hist,       \* history: what the handlers and calls have done so far
    s_rtc,      \* RtcHandler s_rtc
    rtcHw       \* RTC, backup-domain and NVIC bits the RTC driver uses

vars == <<s_uart, usart, nvic, rccUartEn, rccIopEn, afioMapr, gpio, s_mcu,
          s_sysTick, sysTickHw, app, line, hist, s_rtc, rtcHw>>

\* ------------------------------------------------------------------------
\* Pins
\* ------------------------------------------------------------------------
Pin(port, number) == <<port, number>>

UartPinSet ==
    { Pin(kAfioA, 9), Pin(kAfioA, 10), Pin(kAfioB, 6), Pin(kAfioB, 7),
      Pin(kAfioA, 2), Pin(kAfioA, 3), Pin(kAfioD, 5), Pin(kAfioD, 6),
      Pin(kAfioB, 10), Pin(kAfioB, 11), Pin(kAfioC, 10), Pin(kAfioC, 11),
      Pin(kAfioD, 8), Pin(kAfioD, 9) }

\* GPIO reset state: every pin a floating input (MODE = 00, CNF = 01).
GpioReset == [mode |-> 0, cnf |-> 1]

\* ------------------------------------------------------------------------
\* Initial values (the static initializers and the hardware reset state)
\* ------------------------------------------------------------------------
ZeroRx == [j \in RingIndex |-> 0]

UartHandlerInit ==
    [ m_isInit |-> FALSE, m_isLocked |-> FALSE,
      m_mapping |-> kUart1TxPA9_RxPA10,
      m_rx |-> ZeroRx, m_rxTail |-> 0, m_rxHead |-> 0 ]

UsartReset ==
    [ UE |-> FALSE, TE |-> FALSE, RE |-> FALSE, RXNEIE |-> FALSE,
      TCIE |-> FALSE, M |-> FALSE, PCE |-> FALSE, STOP |-> 0,
      RXNE |-> FALSE, ORE |-> FALSE, TC |-> TRUE, TXE |-> TRUE,
      DR |-> 0, BRR |-> 0 ]

SystemInfoInit ==
    [ m_isSysClkReady |-> FALSE, m_clock |-> DEFAULT_XTAL_FREQUENCY,
      m_apb1Divider |-> 1, m_apb2Divider |-> 1 ]

SysTickHandlerInit ==
    [ m_isInit |-> FALSE, m_stepUnit |-> kTickMillisecs, m_stepSize |-> 1,
      m_tick |-> 0 ]

\* DEFAULT_RTC_HANDLER.
DEFAULT_RTC_HANDLER ==
    [ m_isInit |-> FALSE, m_isActive |-> FALSE, m_source |-> kLsiSource,
      m_seconds |-> DEFAULT_SECONDS_VALUE, m_isLocked |-> FALSE ]

\* The RTC and backup-domain bits after reset: RCC->BDCR (RTCEN, RTCSEL,
\* LSEON), RCC->APB1ENR (PWREN and BKPEN), PWR->CR (DBP), RTC->CRL (CNF,
\* SECF), RTC->CRH (SECIE, OWIE), RTC->PRLH:PRLL, and the NVIC enable bit of
\* RTC_IRQn.
RtcHwReset ==
    [ RTCEN |-> FALSE, RTCSEL |-> 0, LSEON |-> FALSE, BKPEN |-> FALSE,
      DBP |-> FALSE, CNF |-> FALSE, SECF |-> FALSE, SECIE |-> FALSE,
      OWIE |-> FALSE, PRL |-> 32768, nvic |-> FALSE ]

\* An application context that is not inside a driver call.
IdleApp ==
    [ pc |-> "idle", op |-> "none", inst |-> 0, size |-> 0, hasBuf |-> TRUE,
      pins |-> 0, rate |-> 0,
      l_cmp |-> FALSE, l_bytesToBeRead |-> 0, l_index |-> 0, l_endTick |-> 0,
      data |-> << >>, out |-> << >>, taken |-> << >>, written |-> << >>,
      retN |-> 0, retB |-> FALSE,
      callTick |-> 0, txeSeen |-> FALSE, txeMissed |-> FALSE, wroteAt |-> 0,
      preInit |-> FALSE, preLocked |-> FALSE, preLast |-> "none",
      preTail |-> 0, queued |-> << >>,
      source |-> 0, isActive |-> FALSE, value |-> 0,
      preRtc |-> DEFAULT_RTC_HANDLER ]

\* The transmitter takes the byte written to DR into its idle shift register
\* before the next test of TXE: the flag is found set again.
AtOnce == -2

\* Ticks the transmitter may take to empty the data register after a write;
\* it may also never empty it again.
TxeDelays == {0, UART_DEFAULT_TIMEOUT, UART_DEFAULT_TIMEOUT + 1}

LineInit ==
    [ rxLimit |-> [i \in Instances |-> 0],
      rxCount |-> [i \in Instances |-> 0],
      txeAt |-> [i \in Instances |-> 0],
      txeSetAt |-> [i \in Instances |-> 0],
      txeWhen |-> TxeDelays \cup {Never},
      tcDue |-> [i \in Instances |-> FALSE],
      jitter |-> 0,
      seconds |-> 0,
      nested |-> TRUE ]

HistInit ==
    [ pending |-> [i \in Instances |-> << >>],
      overflowed |-> [i \in Instances |-> FALSE],
      copied |-> [i \in Instances |-> 0],
      lastOk |-> [i \in Instances |-> "none"],
      lastTick |-> 0,
      asked |-> << >>,
      strayIndex |-> [i \in Instances |-> FALSE] ]

Init ==
    /\ s_uart = [i \in Instances |-> UartHandlerInit]
    /\ usart = [i \in Instances |-> UsartReset]
    /\ nvic = [i \in Instances |-> FALSE]
    /\ rccUartEn = [i \in Instances |-> FALSE]
    /\ rccIopEn = {}
    /\ afioMapr = [r1 |-> 0, r2 |-> 0, r3 |-> 0]
    /\ gpio = [p \in UartPinSet |-> GpioReset]
    /\ s_mcu = SystemInfoInit
    /\ s_sysTick = SysTickHandlerInit
    /\ sysTickHw = [LOAD |-> 0, ENABLE |-> FALSE]
    /\ app = [c \in Callers |-> IdleApp]
    /\ line = LineInit
    /\ hist = HistInit
    /\ s_rtc = DEFAULT_RTC_HANDLER
    /\ rtcHw = RtcHwReset


\* ------------------------------------------------------------------------
\* Interrupt lines
\* ------------------------------------------------------------------------
\* The USARTx interrupt line is raised (CR1 interrupt enables against SR)
\* and enabled in the NVIC.
IrqPending(i) ==
    /\ nvic[i]
    /\ \/ usart[i].RXNEIE /\ (usart[i].RXNE \/ usart[i].ORE)
       \/ usart[i].TCIE /\ usart[i].TC

\* The RTC interrupt line is raised (the second flag against its enable
\* bit) and enabled in the NVIC.
RtcIrqPending == rtcHw.nvic /\ rtcHw.SECIE /\ rtcHw.SECF

\* Application code runs only while no enabled UART or RTC interrupt is
\* pending.
AppCanRun == (\A i \in Instances : ~IrqPending(i)) /\ ~RtcIrqPending

\* With nested preemption main() does not advance while the context that
\* preempted it is inside a driver call; otherwise the two contexts
\* preempt each other at any step.
Preempted(c) == line.nested /\ c = "main" /\ app["task"].pc # "idle"

AppAt(c, label) == app[c].pc = label /\ AppCanRun /\ ~Preempted(c)

\* ------------------------------------------------------------------------
\* Environment: the receive line
\* ------------------------------------------------------------------------
\* The k-th byte the line delivers to instance i.  Consecutive bytes differ,
\* the three lines carry different bytes, no byte is 0, and the period is
\* not the ring size, so a stale, repeated, skipped or foreign byte shows.
RxByte(i, k) == ((k + 64 * i) % 251) + 1

\* A byte arrives in the receive shift register of USARTi (the line carries
\* rxLimit bytes in all).  It is moved to
\* DR and RXNE is set; if RXNE is still set the byte is lost and ORE is set
\* (possible only while the interrupt line is disabled in the NVIC).
HwReceive(i) ==
    /\ usart[i].UE /\ usart[i].RE /\ rccUartEn[i]
    /\ line.rxCount[i] < line.rxLimit[i]
    /\ ~usart[i].RXNE \/ ~nvic[i]
    /\ usart' = [usart EXCEPT ![i] =
                   IF @.RXNE THEN [@ EXCEPT !.ORE = TRUE]
                   ELSE [@ EXCEPT !.DR = RxByte(i, line.rxCount[i]),
                                  !.RXNE = TRUE]]
    /\ line' = [line EXCEPT !.rxCount[i] = @ + 1]
    /\ UNCHANGED <<s_uart, nvic, rccUartEn, rccIopEn, afioMapr, gpio, s_mcu,
                   s_sysTick, sysTickHw, app, hist,
                   s_rtc, rtcHw>>

\* ------------------------------------------------------------------------
\* Interrupt handlers
\* ------------------------------------------------------------------------
NextHead_Skip(head) == (head + 2) % UART_RX_BUFFER_SIZE

\* s_uart[i].m_rxHead %= UART_RX_BUFFER_SIZE after the post-increment.
NextHead(head) == (head + 1) % UART_RX_BUFFER_SIZE

StoreRx_Flush(h, byte) ==
    [h EXCEPT !.m_rx[h.m_rxHead] = byte % 256,
              !.m_rxHead = NextHead(h.m_rxHead),
              !.m_rxTail = h.m_rxHead]

StoreRx_KeepOldest(h, byte) ==
    IF NextHead(h.m_rxHead) = h.m_rxTail THEN h
    ELSE [h EXCEPT !.m_rx[h.m_rxHead] = byte % 256,
                   !.m_rxHead = NextHead(h.m_rxHead)]

\* m_rx[m_rxHead ++] = 0xFF & DR; m_rxHead %= UART_RX_BUFFER_SIZE.
StoreRx(h, byte) ==
    [h EXCEPT !.m_rx[h.m_rxHead] = byte % 256,
              !.m_rxHead = NextHead(h.m_rxHead)]

\* History: the handler of instance i appended byte to its ring buffer.
NoteAppend(i, byte) ==
    [hist EXCEPT !.pending[i] = Append(@, byte % 256),
                 !.overflowed[i] = @ \/ Len(hist.pending[i]) + 1
                                         >= UART_RX_BUFFER_SIZE]

USART1_IRQHandler ==
    /\ IrqPending(kUart1)
    /\ LET u == usart[kUart1]
           h == s_uart[kUart1]
       IN  IF u.RXNE \/ u.ORE
           THEN /\ s_uart' = [s_uart EXCEPT ![kUart1] =
                                [StoreRx(h, u.DR) EXCEPT !.m_isLocked = FALSE]]
                /\ usart' = [usart EXCEPT ![kUart1].RXNE = FALSE,
                                          ![kUart1].ORE = FALSE]
                /\ hist' = NoteAppend(kUart1, u.DR)
           ELSE /\ s_uart' = [s_uart EXCEPT ![kUart1].m_isLocked = FALSE]
                /\ usart' = [usart EXCEPT ![kUart1].TC =
                               IF u.TE /\ u.TCIE /\ u.TC THEN FALSE ELSE @]
                /\ hist' = hist
    /\ UNCHANGED <<nvic, rccUartEn, rccIopEn, afioMapr, gpio, s_mcu,
                   s_sysTick, sysTickHw, app, line,
                   s_rtc, rtcHw>>

\* USART2_IRQHandler and USART3_IRQHandler have the same body; both read
\* the data register of USART1.
UsartN_IRQHandler(i) ==
    /\ IrqPending(i)
    /\ LET u == usart[i]
           h == s_uart[i]
           rx == u.RE /\ u.RXNEIE /\ u.RXNE
           tc == u.TE /\ u.TCIE /\ u.TC
           byte == usart[kUart1].DR
       IN  /\ s_uart' = [s_uart EXCEPT ![i] =
                           [(IF rx THEN StoreRx(h, byte) ELSE h)
                               EXCEPT !.m_isLocked = FALSE]]
           /\ usart' = [j \in Instances |->
                          IF j = i
                          THEN [u EXCEPT !.RXNE = IF rx THEN FALSE ELSE @,
                                         !.TC = IF tc THEN FALSE ELSE @]
                          ELSE IF j = kUart1 /\ rx
                          THEN [usart[j] EXCEPT !.RXNE = FALSE]
                          ELSE usart[j]]
           /\ hist' = IF rx THEN NoteAppend(i, byte) ELSE hist
    /\ UNCHANGED <<nvic, rccUartEn, rccIopEn, afioMapr, gpio, s_mcu,
                   s_sysTick, sysTickHw, app, line,
                   s_rtc, rtcHw>>

USART2_IRQHandler == UsartN_IRQHandler(kUart2)

USART3_IRQHandler == UsartN_IRQHandler(kUart3)

\* ------------------------------------------------------------------------
\* Application calls: common
\* ------------------------------------------------------------------------
SetApp(c, r) == app' = [app EXCEPT ![c] = r]

\* The caller takes the result of a finished call.
Return(c) ==
    /\ AppAt(c, "done")
    /\ SetApp(c, IdleApp)
    /\ UNCHANGED <<s_uart, usart, nvic, rccUartEn, rccIopEn, afioMapr, gpio,
                   s_mcu, s_sysTick, sysTickHw, line, hist,
                   s_rtc, rtcHw>>

\* ------------------------------------------------------------------------
\* Uart_Read
\* ------------------------------------------------------------------------
Uart_CheckRxBytes_Always(h) == h.m_isInit

Uart_CheckRxBytes(h) ==
    IF ~h.m_isInit THEN FALSE ELSE h.m_rxTail # h.m_rxHead

NotReady_NoLock(h, hasBuf, size) == ~h.m_isInit \/ ~hasBuf \/ size = 0

NotReady_NoSize(h, hasBuf, size) == ~h.m_isInit \/ ~hasBuf \/ h.m_isLocked

\* The guard of Uart_Read and of Uart_Send.
NotReady(h, hasBuf, size) ==
    ~h.m_isInit \/ ~hasBuf \/ size = 0 \/ h.m_isLocked

RxCount_NoWrap(cmp, head, tail) == (head - tail) % UINT16_MOD

\* l_bytesToBeRead from the comparison made before and the cursors now
\* (uint16_t arithmetic).
RxCount(cmp, head, tail) ==
    IF cmp THEN (UART_RX_BUFFER_SIZE + head - tail) % UINT16_MOD
    ELSE (head - tail) % UINT16_MOD

LimitToSize(n, size) == IF n > size THEN size ELSE n

\* while (m_rxTail != m_rxHead)
CopyAgain(h) == h.m_rxTail # h.m_rxHead

\* Lines 507-517: the guard and Uart_CheckRxBytes.
Uart_Read_Check(c, i, hasBuf, size) ==
    /\ AppAt(c, "idle")
    /\ LET h == s_uart[i]
           call == [IdleApp EXCEPT !.op = "read", !.inst = i, !.size = size,
                                   !.hasBuf = hasBuf,
                                   !.preInit = h.m_isInit,
                                   !.preLocked = h.m_isLocked,
                                   !.preTail = h.m_rxTail,
                                   !.queued = hist.pending[i]]
       IN  IF NotReady(h, hasBuf, size) \/ ~Uart_CheckRxBytes(h)
           THEN SetApp(c, [call EXCEPT !.pc = "done", !.retN = 0])
           ELSE SetApp(c, [call EXCEPT !.pc = "read_lock"])
    /\ UNCHANGED <<s_uart, usart, nvic, rccUartEn, rccIopEn, afioMapr, gpio,
                   s_mcu, s_sysTick, sysTickHw, line, hist,
                   s_rtc, rtcHw>>

\* Line 521.
Uart_Read_Lock(c) ==
    /\ AppAt(c, "read_lock")
    /\ s_uart' = [s_uart EXCEPT ![app[c].inst].m_isLocked = TRUE]
    /\ SetApp(c, [app[c] EXCEPT !.pc = "read_cmp"])
    /\ UNCHANGED <<usart, nvic, rccUartEn, rccIopEn, afioMapr, gpio, s_mcu,
                   s_sysTick, sysTickHw, line, hist,
                   s_rtc, rtcHw>>

\* Line 523: the comparison of the cursors.
Uart_Read_Compare(c) ==
    /\ AppAt(c, "read_cmp")
    /\ LET h == s_uart[app[c].inst]
       IN  SetApp(c, [app[c] EXCEPT !.pc = "read_count",
                                    !.l_cmp = h.m_rxHead < h.m_rxTail])
    /\ UNCHANGED <<s_uart, usart, nvic, rccUartEn, rccIopEn, afioMapr, gpio,
                   s_mcu, s_sysTick, sysTickHw, line, hist,
                   s_rtc, rtcHw>>

\* Lines 525-536: the subtraction and the limit.
Uart_Read_Count(c) ==
    /\ AppAt(c, "read_count")
    /\ LET h == s_uart[app[c].inst]
           n == RxCount(app[c].l_cmp, h.m_rxHead, h.m_rxTail)
       IN  SetApp(c, [app[c] EXCEPT !.pc = "read_copy",
                         !.l_bytesToBeRead = LimitToSize(n, app[c].size)])
    /\ UNCHANGED <<s_uart, usart, nvic, rccUartEn, rccIopEn, afioMapr, gpio,
                   s_mcu, s_sysTick, sysTickHw, line, hist,
                   s_rtc, rtcHw>>

\* The values an access to m_rx[k] can yield.  Index UART_RX_BUFFER_SIZE or
\* more leaves the array (lines 70-71): the access lands on the padding or
\* on the low byte of m_rxTail, which holds the cursor before or after its
\* increment.
BeyondRing(k) == {0, k % 256, (k + 1) % 256}

RingSlot(h, k) == IF k \in RingIndex THEN {h.m_rx[k]} ELSE BeyondRing(k)

\* Line 540: *(pData ++) = m_rx[m_rxTail ++].
Uart_Read_Copy(c) ==
    /\ AppAt(c, "read_copy")
    /\ LET i == app[c].inst
           h == s_uart[i]
           q == hist.pending[i]
       IN  /\ \E byte \in RingSlot(h, h.m_rxTail) :
                  SetApp(c, [app[c] EXCEPT
                      !.pc = "read_wrap",
                      !.out = Append(@, byte),
                      !.taken = Append(@, IF q = << >> THEN -1 ELSE Head(q))])
           /\ s_uart' = [s_uart EXCEPT ![i].m_rxTail = (@ + 1) % UINT16_MOD]
           /\ hist' = [hist EXCEPT !.pending[i] =
                                       IF q = << >> THEN q ELSE Tail(q),
                                    !.copied[i] = @ + 1,
                                    !.strayIndex[i] =
                                       @ \/ h.m_rxTail \notin RingIndex]
    /\ UNCHANGED <<usart, nvic, rccUartEn, rccIopEn, afioMapr, gpio, s_mcu,
                   s_sysTick, sysTickHw, line,
                   s_rtc, rtcHw>>

\* Line 541: m_rxTail %= UART_RX_BUFFER_SIZE.
Uart_Read_Wrap(c) ==
    /\ AppAt(c, "read_wrap")
    /\ s_uart' = [s_uart EXCEPT ![app[c].inst].m_rxTail =
                    @ % UART_RX_BUFFER_SIZE]
    /\ SetApp(c, [app[c] EXCEPT !.pc = "read_loop"])
    /\ UNCHANGED <<usart, nvic, rccUartEn, rccIopEn, afioMapr, gpio, s_mcu,
                   s_sysTick, sysTickHw, line, hist,
                   s_rtc, rtcHw>>

\* Line 542: the loop condition.
Uart_Read_Loop(c) ==
    /\ AppAt(c, "read_loop")
    /\ SetApp(c, [app[c] EXCEPT !.pc =
           IF CopyAgain(s_uart[app[c].inst]) THEN "read_copy"
           ELSE "read_unlock"])
    /\ UNCHANGED <<s_uart, usart, nvic, rccUartEn, rccIopEn, afioMapr, gpio,
                   s_mcu, s_sysTick, sysTickHw, line, hist,
                   s_rtc, rtcHw>>

\* Lines 543-545.
Uart_Read_Unlock(c) ==
    /\ AppAt(c, "read_unlock")
    /\ s_uart' = [s_uart EXCEPT ![app[c].inst].m_isLocked = FALSE]
    /\ SetApp(c, [app[c] EXCEPT !.pc = "done",
                                !.retN = app[c].l_bytesToBeRead])
    /\ UNCHANGED <<usart, nvic, rccUartEn, rccIopEn, afioMapr, gpio, s_mcu,
                   s_sysTick, sysTickHw, line, hist,
                   s_rtc, rtcHw>>

Uart_Read_Step(c) ==
    \/ Uart_Read_Lock(c)
    \/ Uart_Read_Compare(c)
    \/ Uart_Read_Count(c)
    \/ Uart_Read_Copy(c)
    \/ Uart_Read_Wrap(c)
    \/ Uart_Read_Loop(c)
    \/ Uart_Read_Unlock(c)

\* ------------------------------------------------------------------------
\* RCC and SysTick
\* ------------------------------------------------------------------------
\* s_mcu.m_clock as Rcc_InitCore saves it.
CoreClockHz(clock) ==
    IF clock = kClock8MHz THEN DEFAULT_XTAL_FREQUENCY
    ELSE LET l_basicFreq == DEFAULT_XTAL_FREQUENCY \div 1000000
         IN  (2 * l_basicFreq + l_basicFreq * (clock - kClock16MHz)) * 1000000

Rcc_InitCore(clock) ==
    /\ AppCanRun
    /\ \A c \in Callers : app[c].pc = "idle"
    /\ s_mcu' = [s_mcu EXCEPT
                   !.m_apb1Divider = IF clock >= kClock32MHz THEN 2 ELSE @,
                   !.m_clock = CoreClockHz(clock),
                   !.m_isSysClkReady = TRUE]
    /\ UNCHANGED <<s_uart, usart, nvic, rccUartEn, rccIopEn, afioMapr, gpio,
                   s_sysTick, sysTickHw, app, line, hist,
                   s_rtc, rtcHw>>

Rcc_GetApb1Divider == s_mcu.m_apb1Divider

Rcc_GetApb2Divider == s_mcu.m_apb2Divider

Rcc_GetSystemClock == s_mcu.m_clock

\* SysTick_Init never stores its parameters: the step unit and the step size
\* stay those of the static initializer.
SysTick_Init(step, units) ==
    /\ AppCanRun
    /\ \A c \in Callers : app[c].pc = "idle"
    /\ IF s_sysTick.m_isInit
       THEN UNCHANGED <<s_sysTick, sysTickHw, hist>>
       ELSE LET l_divider == IF s_sysTick.m_stepUnit = kTickMicrosecs
                             THEN 1000000
                             ELSE IF s_sysTick.m_stepUnit = kTickMillisecs
                             THEN 1000 ELSE 1
                size == IF s_sysTick.m_stepSize > MAXIMAL_STEP_SIZE
                        THEN MAXIMAL_STEP_SIZE
                        ELSE IF s_sysTick.m_stepSize = 0 THEN 1
                        ELSE s_sysTick.m_stepSize
                l_ticks == (Rcc_GetSystemClock \div (l_divider \div size)) - 1
            IN  /\ s_sysTick' = [s_sysTick EXCEPT !.m_stepSize = size,
                                                  !.m_isInit = TRUE]
                /\ sysTickHw' = [LOAD |-> l_ticks % 16777216,
                                 ENABLE |-> TRUE]
                /\ hist' = [hist EXCEPT !.asked = <<step, units>>]
    /\ UNCHANGED <<s_uart, usart, nvic, rccUartEn, rccIopEn, afioMapr, gpio,
                   s_mcu, app, line,
                   s_rtc, rtcHw>>

\* Lines 159-171 of CoreSysTick.c.
SysTick_GetTickLength ==
    IF ~s_sysTick.m_isInit THEN 0
    ELSE IF s_sysTick.m_stepUnit = kTickMicrosecs THEN s_sysTick.m_stepSize
    ELSE 1000 * s_sysTick.m_stepSize

SysTick_GetTick == IF ~s_sysTick.m_isInit THEN 0 ELSE s_sysTick.m_tick

\* Some context is in the send loop and the transmitter of its instance has
\* neither raised TXE nor is about to.
TxeDue(i) ==
    /\ ~usart[i].TXE
    /\ line.txeAt[i] # Never
    /\ s_sysTick.m_tick >= line.txeAt[i]

WaitingOnTxe ==
    \E c \in Callers :
        /\ app[c].pc \in {"send_txe", "send_while"}
        /\ ~usart[app[c].inst].TXE
        /\ ~TxeDue(app[c].inst)

\* Lines 40-41 of CoreDelay.c: the loop condition.
DelayAgain(tick, l_endTick) == tick <= l_endTick

\* Some context is in the loop of Delay_Wait and its condition still holds.
WaitingOnDelay ==
    \E c \in Callers :
        /\ app[c].pc = "delay_wait"
        /\ DelayAgain(SysTick_GetTick, app[c].l_endTick)

WaitingOnTick == WaitingOnTxe \/ WaitingOnDelay

\* Last tick of a behaviour: one wait of Uart_Send can run into its
\* timeout, whatever the jitter before it.
MaxTick == UART_DEFAULT_TIMEOUT + MaxJitter + 2

\* The timer interrupt: ++ s_sysTick.m_tick.
SysTick_Handler ==
    /\ sysTickHw.ENABLE
    /\ AppCanRun
    /\ s_sysTick.m_tick < MaxTick
    /\ WaitingOnTick \/ line.jitter < MaxJitter
    /\ s_sysTick' = [s_sysTick EXCEPT !.m_tick = @ + 1]
    /\ line' = [line EXCEPT !.jitter = IF WaitingOnTick THEN @ ELSE @ + 1]
    /\ UNCHANGED <<s_uart, usart, nvic, rccUartEn, rccIopEn, afioMapr, gpio,
                   s_mcu, sysTickHw, app, hist,
                   s_rtc, rtcHw>>

\* SysTick_ResetTick, called between two driver calls.
SysTick_ResetTick ==
    /\ AppCanRun
    /\ \A c \in Callers : app[c].pc = "idle"
    /\ s_sysTick' = IF ~s_sysTick.m_isInit THEN s_sysTick
                    ELSE [s_sysTick EXCEPT !.m_tick = 0]
    /\ UNCHANGED <<s_uart, usart, nvic, rccUartEn, rccIopEn, afioMapr, gpio,
                   s_mcu, sysTickHw, app, line, hist,
                   s_rtc, rtcHw>>

\* A caller calls SysTick_GetTick and takes the value; the history keeps
\* the value the last call returned.
SysTick_GetTick_Call(c) ==
    /\ AppAt(c, "idle")
    /\ SetApp(c, [IdleApp EXCEPT !.op = "tick", !.pc = "done",
                                 !.retN = SysTick_GetTick])
    /\ hist' = [hist EXCEPT !.lastTick = SysTick_GetTick]
    /\ UNCHANGED <<s_uart, usart, nvic, rccUartEn, rccIopEn, afioMapr, gpio,
                   s_mcu, s_sysTick, sysTickHw, line,
                   s_rtc, rtcHw>>

\* ------------------------------------------------------------------------
\* Delay_Wait
\* ------------------------------------------------------------------------
\* Lines 35-38 of CoreDelay.c: l_tick and l_endTick (the counter is far
\* from the end of its 64 bits).
Delay_Wait_Call(c, units) ==
    /\ AppAt(c, "idle")
    /\ SetApp(c, [IdleApp EXCEPT !.op = "delay", !.pc = "delay_wait",
                                 !.size = units,
                                 !.callTick = SysTick_GetTick,
                                 !.l_endTick = SysTick_GetTick + units])
    /\ UNCHANGED <<s_uart, usart, nvic, rccUartEn, rccIopEn, afioMapr, gpio,
                   s_mcu, s_sysTick, sysTickHw, line, hist,
                   s_rtc, rtcHw>>

\* Line 40 of CoreDelay.c: one test of the loop condition; when it fails
\* the call returns, and retN keeps the tick the test read.
Delay_Wait_Loop(c) ==
    /\ AppAt(c, "delay_wait")
    /\ IF DelayAgain(SysTick_GetTick, app[c].l_endTick)
       THEN UNCHANGED app
       ELSE SetApp(c, [app[c] EXCEPT !.pc = "done",
                                     !.retN = SysTick_GetTick])
    /\ UNCHANGED <<s_uart, usart, nvic, rccUartEn, rccIopEn, afioMapr, gpio,
                   s_mcu, s_sysTick, sysTickHw, line, hist,
                   s_rtc, rtcHw>>

\* ------------------------------------------------------------------------
\* AFIO
\* ------------------------------------------------------------------------
\* The mode and cnf bits Afio_Init leaves in CRL/CRH for the pin.
Afio_Init(g, pin, type) ==
    [g EXCEPT ![pin] =
        IF type >= kAfioPushPull /\ type <= kAfioOpenDrain
        THEN [mode |-> 3, cnf |-> type]
        ELSE IF type = kAfioInputNoPull
        THEN [mode |-> 0, cnf |-> 1]
        ELSE [mode |-> 0, cnf |-> 0]]

Afio_DeInit(g, pin) == [g EXCEPT ![pin] = [mode |-> 0, cnf |-> 0]]

\* ------------------------------------------------------------------------
\* Uart_Init
\* ------------------------------------------------------------------------
\* Lines 306-329: the mapping check (TRUE when Uart_Init goes on).
MappingAccepted(instance, pins) ==
    IF instance = kUart1 THEN ~(pins >= kUart2TxPA2_RxPA3)
    ELSE IF instance = kUart2
    THEN ~(pins # kUart2TxPA2_RxPA3 /\ pins # kUart2TxPD5_RxPD6)
    ELSE ~(pins <= kUart2TxPA2_RxPA3)

\* Lines 338-381: the TX and the RX pin of a mapping.
InitPins(pins) ==
    CASE pins = kUart1TxPA9_RxPA10 -> <<Pin(kAfioA, 9), Pin(kAfioA, 10)>>
      [] pins = kUart1TxPB6_RxPB7 -> <<Pin(kAfioB, 6), Pin(kAfioB, 7)>>
      [] pins = kUart2TxPA2_RxPA3 -> <<Pin(kAfioA, 2), Pin(kAfioA, 3)>>
      [] pins = kUart2TxPD5_RxPD6 -> <<Pin(kAfioD, 5), Pin(kAfioD, 6)>>
      [] pins = kUart3TxPB10_RxPB11 -> <<Pin(kAfioB, 10), Pin(kAfioB, 11)>>
      [] pins = kUart3TxPC10_RxPC11 -> <<Pin(kAfioC, 10), Pin(kAfioC, 11)>>
      [] pins = kUart3TxPD8_RxPD9 -> <<Pin(kAfioD, 8), Pin(kAfioD, 9)>>

\* Lines 338-381: AFIO->MAPR after the remap of a mapping (USART3_REMAP is
\* a two-bit field, USART3_REMAP_0 its low bit).
Remap(m, pins) ==
    CASE pins = kUart1TxPA9_RxPA10 -> [m EXCEPT !.r1 = 0]
      [] pins = kUart1TxPB6_RxPB7 -> [m EXCEPT !.r1 = 1]
      [] pins = kUart2TxPA2_RxPA3 -> [m EXCEPT !.r2 = 0]
      [] pins = kUart2TxPD5_RxPD6 -> [m EXCEPT !.r2 = 1]
      [] pins = kUart3TxPB10_RxPB11 -> [m EXCEPT !.r3 = 0]
      [] pins = kUart3TxPC10_RxPC11 ->
             [m EXCEPT !.r3 = IF @ % 2 = 1 THEN @ ELSE @ + 1]
      [] pins = kUart3TxPD8_RxPD9 -> [m EXCEPT !.r3 = 3]

\* Lines 385-398: the value written to BRR (the float quotient is taken as
\* the exact one).
BaudCode(clock, prescaler, rate) ==
    LET l_baud == (clock * 10) \div (prescaler * rate * 16)
    IN  (((l_baud \div 10) * 16) + (l_baud % 10)) % UINT16_MOD

\* Lines 401-417: CR1, CR2 and SR as Uart_Init leaves them.
UsartConfigured_NoTcie(u, brr) ==
    [u EXCEPT !.BRR = brr, !.M = FALSE, !.PCE = FALSE, !.STOP = 0,
              !.TE = TRUE, !.RE = TRUE, !.RXNEIE = TRUE,
              !.UE = TRUE, !.RXNE = FALSE, !.TC = FALSE]

UsartConfigured(u, brr) ==
    [u EXCEPT !.BRR = brr, !.M = FALSE, !.PCE = FALSE, !.STOP = 0,
              !.TE = TRUE, !.RE = TRUE, !.TCIE = TRUE, !.RXNEIE = TRUE,
              !.UE = TRUE, !.RXNE = FALSE, !.TC = FALSE]

BusPrescaler(instance) ==
    IF instance = kUart1 THEN Rcc_GetApb2Divider ELSE Rcc_GetApb1Divider

\* RCC->APBxENR |= RCC_APBxENR_USARTxEN.
Uart_EnableClock(en, instance) == [en EXCEPT ![instance] = TRUE]

Uart_Init_Check_ClockFirst(c, instance, pins, rate) ==
    /\ AppAt(c, "idle")
    /\ LET call == [IdleApp EXCEPT !.op = "init", !.inst = instance,
                                   !.pins = pins, !.rate = rate,
                                   !.preInit = s_uart[instance].m_isInit,
                                   !.preLast = hist.lastOk[instance]]
           brr == BaudCode(Rcc_GetSystemClock, BusPrescaler(instance), rate)
       IN  /\ rccUartEn' = Uart_EnableClock(rccUartEn, instance)
           /\ IF s_uart[instance].m_isInit \/ ~MappingAccepted(instance, pins)
              THEN /\ SetApp(c, [call EXCEPT !.pc = "done", !.retB = FALSE])
                   /\ UNCHANGED <<s_uart, usart, rccIopEn, afioMapr, gpio>>
              ELSE /\ SetApp(c, [call EXCEPT !.pc = "init_nvic"])
                   /\ usart' = [usart EXCEPT ![instance] =
                                   UsartConfigured(@, brr)]
                   /\ afioMapr' = Remap(afioMapr, pins)
                   /\ gpio' = Afio_Init(
                                  Afio_Init(gpio, InitPins(pins)[1],
                                            kAfioPushPull),
                                  InitPins(pins)[2], kAfioInputNoPull)
                   /\ rccIopEn' = rccIopEn \cup {InitPins(pins)[1][1],
                                                 InitPins(pins)[2][1]}
                   /\ s_uart' = [s_uart EXCEPT ![instance].m_mapping = pins]
    /\ UNCHANGED <<nvic, s_mcu, s_sysTick, sysTickHw, line, hist,
                   s_rtc, rtcHw>>

\* Lines 302-417: the two checks and the programming of the hardware.
Uart_Init_Check(c, instance, pins, rate) ==
    /\ AppAt(c, "idle")
    /\ LET call == [IdleApp EXCEPT !.op = "init", !.inst = instance,
                                   !.pins = pins, !.rate = rate,
                                   !.preInit = s_uart[instance].m_isInit,
                                   !.preLast = hist.lastOk[instance]]
           brr == BaudCode(Rcc_GetSystemClock, BusPrescaler(instance), rate)
       IN  IF s_uart[instance].m_isInit \/ ~MappingAccepted(instance, pins)
           THEN /\ SetApp(c, [call EXCEPT !.pc = "done", !.retB = FALSE])
                /\ UNCHANGED <<s_uart, usart, rccUartEn, rccIopEn, afioMapr,
                               gpio>>
           ELSE /\ SetApp(c, [call EXCEPT !.pc = "init_nvic"])
                /\ usart' = [usart EXCEPT ![instance] =
                                UsartConfigured(@, brr)]
                /\ rccUartEn' = Uart_EnableClock(rccUartEn, instance)
                /\ afioMapr' = Remap(afioMapr, pins)
                /\ gpio' = Afio_Init(
                               Afio_Init(gpio, InitPins(pins)[1],
                                         kAfioPushPull),
                               InitPins(pins)[2], kAfioInputNoPull)
                /\ rccIopEn' = rccIopEn \cup {InitPins(pins)[1][1],
                                              InitPins(pins)[2][1]}
                /\ s_uart' = [s_uart EXCEPT ![instance].m_mapping = pins]
    /\ UNCHANGED <<nvic, s_mcu, s_sysTick, sysTickHw, line, hist,
                   s_rtc, rtcHw>>

\* Lines 419-435: NVIC_EnableIRQ.
Uart_Init_EnableIrq(c) ==
    /\ AppAt(c, "init_nvic")
    /\ nvic' = [nvic EXCEPT ![app[c].inst] = TRUE]
    /\ SetApp(c, [app[c] EXCEPT !.pc = "init_flag"])
    /\ UNCHANGED <<s_uart, usart, rccUartEn, rccIopEn, afioMapr, gpio, s_mcu,
                   s_sysTick, sysTickHw, line, hist,
                   s_rtc, rtcHw>>

Uart_Init_Done_NoFlag(c) ==
    /\ AppAt(c, "init_flag")
    /\ SetApp(c, [app[c] EXCEPT !.pc = "done", !.retB = TRUE])
    /\ hist' = [hist EXCEPT !.lastOk[app[c].inst] = "init"]
    /\ UNCHANGED <<s_uart, usart, nvic, rccUartEn, rccIopEn, afioMapr, gpio,
                   s_mcu, s_sysTick, sysTickHw, line,
                   s_rtc, rtcHw>>

\* Lines 436-438.
Uart_Init_Done(c) ==
    /\ AppAt(c, "init_flag")
    /\ s_uart' = [s_uart EXCEPT ![app[c].inst].m_isInit = TRUE]
    /\ SetApp(c, [app[c] EXCEPT !.pc = "done", !.retB = TRUE])
    /\ hist' = [hist EXCEPT !.lastOk[app[c].inst] = "init"]
    /\ UNCHANGED <<usart, nvic, rccUartEn, rccIopEn, afioMapr, gpio, s_mcu,
                   s_sysTick, sysTickHw, line,
                   s_rtc, rtcHw>>

\* ------------------------------------------------------------------------
\* Uart_DeInit
\* ------------------------------------------------------------------------
\* Lines 563-620: the pins the switch over the instance and its stored
\* mapping releases.
DeInitPins(instance, mapping) ==
    IF instance = kUart1
    THEN IF mapping \in {kUart1TxPA9_RxPA10, kUart1TxPB6_RxPB7}
         THEN InitPins(mapping) ELSE << >>
    ELSE IF instance = kUart2
    THEN IF mapping \in {kUart2TxPA2_RxPA3, kUart2TxPD5_RxPD6}
         THEN InitPins(mapping) ELSE << >>
    ELSE IF mapping \in {kUart3TxPB10_RxPB11, kUart3TxPC10_RxPC11,
                         kUart3TxPD8_RxPD9}
         THEN InitPins(mapping) ELSE << >>

Uart_DisableClock_All(en, instance) == [i \in Instances |-> FALSE]

\* RCC->APBxENR &= ~(RCC_APBxENR_USARTxEN).
Uart_DisableClock(en, instance) == [en EXCEPT ![instance] = FALSE]

CleanUp_KeepCursors(h) == [h EXCEPT !.m_rx = ZeroRx, !.m_isInit = FALSE]

\* Lines 624-627: the handler as Uart_DeInit leaves it.
CleanUp(h) ==
    [h EXCEPT !.m_rx = ZeroRx, !.m_rxHead = 0, !.m_rxTail = 0,
              !.m_isInit = FALSE]

Uart_DeInit(c, instance) ==
    /\ AppAt(c, "idle")
    /\ LET h == s_uart[instance]
           call == [IdleApp EXCEPT !.op = "deinit", !.inst = instance,
                                   !.pins = h.m_mapping,
                                   !.preInit = h.m_isInit,
                                   !.preTail = h.m_rxTail,
                                   !.queued = hist.pending[instance]]
           rel == DeInitPins(instance, h.m_mapping)
       IN  IF ~h.m_isInit
           THEN /\ SetApp(c, [call EXCEPT !.pc = "done", !.retB = FALSE])
                /\ UNCHANGED <<s_uart, usart, nvic, rccUartEn, rccIopEn,
                               gpio, hist>>
           ELSE /\ SetApp(c, [call EXCEPT !.pc = "done", !.retB = TRUE])
                /\ nvic' = [nvic EXCEPT ![instance] = FALSE]
                /\ usart' = [usart EXCEPT ![instance].UE = FALSE]
                /\ gpio' = IF rel = << >> THEN gpio
                           ELSE Afio_DeInit(Afio_DeInit(gpio, rel[1]), rel[2])
                /\ rccIopEn' = IF rel = << >> THEN rccIopEn
                               ELSE rccIopEn \cup {rel[1][1], rel[2][1]}
                /\ rccUartEn' = Uart_DisableClock(rccUartEn, instance)
                /\ s_uart' = [s_uart EXCEPT ![instance] = CleanUp(h)]
                /\ hist' = [hist EXCEPT !.pending[instance] = << >>,
                                        !.overflowed[instance] = FALSE,
                                        !.lastOk[instance] = "deinit"]
    /\ UNCHANGED <<afioMapr, s_mcu, s_sysTick, sysTickHw, line,
                   s_rtc, rtcHw>>

\* ------------------------------------------------------------------------
\* Environment: the transmitter
\* ------------------------------------------------------------------------

\* The data register was moved to the shift register: TXE is set.
HwTxe(i) ==
    /\ TxeDue(i)
    /\ usart' = [usart EXCEPT ![i].TXE = TRUE]
    /\ line' = [line EXCEPT !.txeSetAt[i] = s_sysTick.m_tick]
    /\ UNCHANGED <<s_uart, nvic, rccUartEn, rccIopEn, afioMapr, gpio, s_mcu,
                   s_sysTick, sysTickHw, app, hist,
                   s_rtc, rtcHw>>

\* The last frame left the shift register with DR empty: TC is set.
HwTc(i) ==
    /\ line.tcDue[i]
    /\ usart[i].TXE
    /\ usart' = [usart EXCEPT ![i].TC = TRUE]
    /\ line' = [line EXCEPT !.tcDue[i] = FALSE]
    /\ UNCHANGED <<s_uart, nvic, rccUartEn, rccIopEn, afioMapr, gpio, s_mcu,
                   s_sysTick, sysTickHw, app, hist,
                   s_rtc, rtcHw>>

\* ------------------------------------------------------------------------
\* Uart_Send
\* ------------------------------------------------------------------------
\* The buffer a caller passes with a given size: its j-th byte.
TxByte(j) == (64 + j) % 256

TxData(size) == [j \in 1 .. size |-> TxByte(j)]

\* The record of a call keeps the first MaxLog bytes of the buffer and of
\* what was written to DR, enough for every size up to MaxSendSize.
MaxLog == MaxSendSize + 2

Logged(written, byte) ==
    IF Len(written) < MaxLog THEN Append(written, byte) ELSE written

\* What a read of pData[size], one element past the buffer, may yield.
BeyondData == {0, 255}

\* Lines 476 and 484: l_index > size.
AllSent(l_index, size) == l_index > size

Deadline_NoTimeout(tick) == tick

\* Lines 469 and 480.
Deadline(tick) == UART_DEFAULT_TIMEOUT + tick

KeepWaiting_Strict(l_endTick, tick) == l_endTick > tick

\* Line 482: the loop condition.
KeepWaiting(l_endTick, tick) == l_endTick >= tick

\* Lines 454-458: the guard.
Uart_Send_Check(c, i, hasBuf, size) ==
    /\ AppAt(c, "idle")
    /\ LET h == s_uart[i]
           call == [IdleApp EXCEPT !.op = "send", !.inst = i, !.size = size,
                                   !.hasBuf = hasBuf,
                                   !.data = TxData(IF size <= MaxLog
                                                   THEN size ELSE MaxLog),
                                   !.preInit = h.m_isInit,
                                   !.preLocked = h.m_isLocked,
                                   !.callTick = s_sysTick.m_tick,
                                   !.wroteAt = s_sysTick.m_tick]
       IN  IF NotReady(h, hasBuf, size)
           THEN SetApp(c, [call EXCEPT !.pc = "done", !.retB = FALSE])
           ELSE SetApp(c, [call EXCEPT !.pc = "send_lock"])
    /\ UNCHANGED <<s_uart, usart, nvic, rccUartEn, rccIopEn, afioMapr, gpio,
                   s_mcu, s_sysTick, sysTickHw, line, hist,
                   s_rtc, rtcHw>>

\* Line 462.
Uart_Send_Lock(c) ==
    /\ AppAt(c, "send_lock")
    /\ s_uart' = [s_uart EXCEPT ![app[c].inst].m_isLocked = TRUE]
    /\ SetApp(c, [app[c] EXCEPT !.pc = "send_clear"])
    /\ UNCHANGED <<usart, nvic, rccUartEn, rccIopEn, afioMapr, gpio, s_mcu,
                   s_sysTick, sysTickHw, line, hist,
                   s_rtc, rtcHw>>

\* Line 466: SR &= ~(RXNE | TC | LBD | CTS).
Uart_Send_Clear(c) ==
    /\ AppAt(c, "send_clear")
    /\ usart' = [usart EXCEPT ![app[c].inst].RXNE = FALSE,
                              ![app[c].inst].TC = FALSE]
    /\ SetApp(c, [app[c] EXCEPT !.pc = "send_deadline"])
    /\ UNCHANGED <<s_uart, nvic, rccUartEn, rccIopEn, afioMapr, gpio, s_mcu,
                   s_sysTick, sysTickHw, line, hist,
                   s_rtc, rtcHw>>

\* Lines 469-470.
Uart_Send_Deadline(c) ==
    /\ AppAt(c, "send_deadline")
    /\ SetApp(c, [app[c] EXCEPT !.pc = "send_txe", !.l_index = 0,
                                !.l_endTick = Deadline(SysTick_GetTick)])
    /\ UNCHANGED <<s_uart, usart, nvic, rccUartEn, rccIopEn, afioMapr, gpio,
                   s_mcu, s_sysTick, sysTickHw, line, hist,
                   s_rtc, rtcHw>>

\* Lines 473-479: the TXE test, the write of DR and the exit test.  The
\* write clears TXE and TC; the transmitter then takes some delay of
\* TxeDelays, or for ever, to raise TXE again.
Uart_Send_Write(c) ==
    /\ AppAt(c, "send_txe")
    /\ LET i == app[c].inst
           a == app[c]
           next == (a.l_index + 1) % UINT16_MOD
       IN  IF usart[i].TXE
           THEN /\ \E byte \in (IF a.l_index < a.size
                                THEN {TxByte(a.l_index + 1)}
                                ELSE BeyondData) :
                     SetApp(c, [a EXCEPT
                        !.l_index = next,
                        !.written = Logged(@, byte),
                        !.wroteAt = s_sysTick.m_tick,
                        !.txeSeen = TRUE,
                        !.pc = IF AllSent(next, a.size) THEN "send_result"
                               ELSE "send_rearm"])
                /\ \E d \in line.txeWhen :
                     /\ usart' = [usart EXCEPT ![i].TXE = (d = AtOnce),
                                               ![i].TC = FALSE]
                     /\ line' = [line EXCEPT
                           !.txeAt[i] = IF d = Never THEN Never
                                        ELSE IF d = AtOnce
                                        THEN s_sysTick.m_tick
                                        ELSE s_sysTick.m_tick + d,
                           !.txeSetAt[i] = IF d = AtOnce
                                           THEN s_sysTick.m_tick ELSE Never,
                           !.tcDue[i] = TRUE]
           ELSE /\ SetApp(c, [a EXCEPT !.pc = "send_while",
                                       !.txeMissed = TRUE])
                /\ UNCHANGED <<usart, line>>
    /\ UNCHANGED <<s_uart, nvic, rccUartEn, rccIopEn, afioMapr, gpio, s_mcu,
                   s_sysTick, sysTickHw, hist,
                   s_rtc, rtcHw>>

\* Line 480.
Uart_Send_Rearm(c) ==
    /\ AppAt(c, "send_rearm")
    /\ SetApp(c, [app[c] EXCEPT !.pc = "send_while",
                                !.l_endTick = Deadline(SysTick_GetTick)])
    /\ UNCHANGED <<s_uart, usart, nvic, rccUartEn, rccIopEn, afioMapr, gpio,
                   s_mcu, s_sysTick, sysTickHw, line, hist,
                   s_rtc, rtcHw>>

\* Line 482.
Uart_Send_While(c) ==
    /\ AppAt(c, "send_while")
    /\ SetApp(c, [app[c] EXCEPT !.pc =
           IF KeepWaiting(app[c].l_endTick, SysTick_GetTick) THEN "send_txe"
           ELSE "send_result"])
    /\ UNCHANGED <<s_uart, usart, nvic, rccUartEn, rccIopEn, afioMapr, gpio,
                   s_mcu, s_sysTick, sysTickHw, line, hist,
                   s_rtc, rtcHw>>

\* Uart_Send releasing the handler only after a complete transmission.
Uart_Send_Result_LockOnTimeout(c) ==
    /\ AppAt(c, "send_result")
    /\ s_uart' = [s_uart EXCEPT ![app[c].inst].m_isLocked =
                    ~AllSent(app[c].l_index, app[c].size)]
    /\ SetApp(c, [app[c] EXCEPT !.pc = "done",
                     !.retB = AllSent(app[c].l_index, app[c].size)])
    /\ UNCHANGED <<usart, nvic, rccUartEn, rccIopEn, afioMapr, gpio, s_mcu,
                   s_sysTick, sysTickHw, line, hist,
                   s_rtc, rtcHw>>

\* Lines 484-490.
Uart_Send_Result(c) ==
    /\ AppAt(c, "send_result")
    /\ s_uart' = [s_uart EXCEPT ![app[c].inst].m_isLocked = FALSE]
    /\ SetApp(c, [app[c] EXCEPT !.pc = "done",
                     !.retB = AllSent(app[c].l_index, app[c].size)])
    /\ UNCHANGED <<usart, nvic, rccUartEn, rccIopEn, afioMapr, gpio, s_mcu,
                   s_sysTick, sysTickHw, line, hist,
                   s_rtc, rtcHw>>

Uart_Send_Step(c) ==
    \/ Uart_Send_Lock(c)
    \/ Uart_Send_Clear(c)
    \/ Uart_Send_Deadline(c)
    \/ Uart_Send_Write(c)
    \/ Uart_Send_Rearm(c)
    \/ Uart_Send_While(c)
    \/ Uart_Send_Result(c)

\* ------------------------------------------------------------------------
\* RTC
\* ------------------------------------------------------------------------
\* Seconds the RTC counts in a behaviour.
MaxSeconds == 2

\* The RTC is running and a second has passed: SECF is set.
HwSecond ==
    /\ rtcHw.RTCEN
    /\ ~rtcHw.SECF
    /\ line.seconds < MaxSeconds
    /\ rtcHw' = [rtcHw EXCEPT !.SECF = TRUE]
    /\ line' = [line EXCEPT !.seconds = @ + 1]
    /\ UNCHANGED <<s_uart, usart, nvic, rccUartEn, rccIopEn, afioMapr, gpio,
                   s_mcu, s_sysTick, sysTickHw, app, hist, s_rtc>>

\* ++ s_rtc.m_seconds on a uint64_t.
NextSecond(seconds) ==
    IF seconds = DEFAULT_SECONDS_VALUE THEN 0 ELSE seconds + 1

\* Lines 91-101 of PeriphRtc.c.
RTC_IRQHandler ==
    /\ RtcIrqPending
    /\ rtcHw' = [rtcHw EXCEPT !.SECF = FALSE]
    /\ s_rtc' = [s_rtc EXCEPT !.m_seconds = NextSecond(@)]
    /\ UNCHANGED <<s_uart, usart, nvic, rccUartEn, rccIopEn, afioMapr, gpio,
                   s_mcu, s_sysTick, sysTickHw, app, line, hist>>

\* The value Rtc_Init loads into RTC->PRLH:PRLL for a clock source.
RtcPrescaler(source) ==
    (IF source = kLseSource THEN 32767
     ELSE IF source = kLsiSource THEN 39999
     ELSE IF source = kHseDiv128 THEN DEFAULT_XTAL_FREQUENCY \div 128 - 1
     ELSE 0) % 1048576

Rtc_NotReady_Never(h) == FALSE

\* The guard of Rtc_SetCounter, Rtc_Reset and Rtc_DeInit.
Rtc_NotReady(h) == ~h.m_isInit

ToggleRefused_InitOnly(h, isActive) == Rtc_NotReady(h)

\* Line 179: the guard of Rtc_Toggle.
ToggleRefused(h, isActive) == Rtc_NotReady(h) \/ h.m_isActive = isActive

\* Lines 186-204: the clock and the interrupt line as Rtc_Toggle leaves them
\* (it enters and leaves the configuration mode).
ToggledHw(hw, h, isActive) ==
    IF isActive /\ ~h.m_isActive
    THEN [hw EXCEPT !.RTCEN = TRUE, !.nvic = TRUE, !.CNF = FALSE]
    ELSE IF ~isActive /\ h.m_isActive
    THEN [hw EXCEPT !.RTCEN = FALSE, !.nvic = FALSE, !.CNF = FALSE]
    ELSE hw

RtcCall(op) ==
    [IdleApp EXCEPT !.op = op, !.preRtc = s_rtc]

\* Lines 112-115.
Rtc_Init_Check(c, source, isActive) ==
    /\ AppAt(c, "idle")
    /\ LET call == [RtcCall("rtc_init") EXCEPT !.source = source,
                                                  !.isActive = isActive]
       IN  IF s_rtc.m_isInit
           THEN SetApp(c, [call EXCEPT !.pc = "done", !.retB = FALSE])
           ELSE SetApp(c, [call EXCEPT !.pc = "rtc_init_config"])
    /\ UNCHANGED <<s_uart, usart, nvic, rccUartEn, rccIopEn, afioMapr, gpio,
                   s_mcu, s_sysTick, sysTickHw, line, hist, s_rtc, rtcHw>>

\* Lines 117-154: the backup domain, the configuration mode, the clock
\* source, the prescaler and the interrupt enables (RTOFF and LSERDY are
\* taken to come up).
Rtc_Init_Config(c) ==
    /\ AppAt(c, "rtc_init_config")
    /\ rtcHw' = [rtcHw EXCEPT !.BKPEN = TRUE, !.DBP = TRUE, !.CNF = TRUE,
                              !.RTCEN = FALSE,
                              !.RTCSEL = app[c].source,
                              !.LSEON = @ \/ app[c].source = kLseSource,
                              !.PRL = RtcPrescaler(app[c].source),
                              !.SECIE = TRUE, !.OWIE = TRUE]
    /\ s_rtc' = [s_rtc EXCEPT !.m_source = app[c].source]
    /\ SetApp(c, [app[c] EXCEPT !.pc = IF app[c].isActive
                                       THEN "rtc_init_enable"
                                       ELSE "rtc_init_flag"])
    /\ UNCHANGED <<s_uart, usart, nvic, rccUartEn, rccIopEn, afioMapr, gpio,
                   s_mcu, s_sysTick, sysTickHw, line, hist>>

\* Lines 156-164.
Rtc_Init_Enable(c) ==
    /\ AppAt(c, "rtc_init_enable")
    /\ rtcHw' = [rtcHw EXCEPT !.RTCEN = TRUE, !.nvic = TRUE, !.CNF = FALSE]
    /\ SetApp(c, [app[c] EXCEPT !.pc = "rtc_init_flag"])
    /\ UNCHANGED <<s_uart, usart, nvic, rccUartEn, rccIopEn, afioMapr, gpio,
                   s_mcu, s_sysTick, sysTickHw, line, hist, s_rtc>>

\* Lines 165-167.
Rtc_Init_Done(c) ==
    /\ AppAt(c, "rtc_init_flag")
    /\ s_rtc' = [s_rtc EXCEPT !.m_isActive = app[c].isActive,
                              !.m_isInit = TRUE]
    /\ SetApp(c, [app[c] EXCEPT !.pc = "done", !.retB = TRUE])
    /\ UNCHANGED <<s_uart, usart, nvic, rccUartEn, rccIopEn, afioMapr, gpio,
                   s_mcu, s_sysTick, sysTickHw, line, hist, rtcHw>>

\* Lines 179-182.
Rtc_Toggle_Check(c, isActive) ==
    /\ AppAt(c, "idle")
    /\ LET call == [RtcCall("rtc_toggle") EXCEPT !.isActive = isActive]
       IN  IF ToggleRefused(s_rtc, isActive)
           THEN SetApp(c, [call EXCEPT !.pc = "done", !.retB = FALSE])
           ELSE SetApp(c, [call EXCEPT !.pc = "rtc_toggle_hw"])
    /\ UNCHANGED <<s_uart, usart, nvic, rccUartEn, rccIopEn, afioMapr, gpio,
                   s_mcu, s_sysTick, sysTickHw, line, hist, s_rtc, rtcHw>>

\* Lines 186-204.
Rtc_Toggle_Hw(c) ==
    /\ AppAt(c, "rtc_toggle_hw")
    /\ rtcHw' = ToggledHw(rtcHw, s_rtc, app[c].isActive)
    /\ SetApp(c, [app[c] EXCEPT !.pc = "rtc_toggle_flag"])
    /\ UNCHANGED <<s_uart, usart, nvic, rccUartEn, rccIopEn, afioMapr, gpio,
                   s_mcu, s_sysTick, sysTickHw, line, hist, s_rtc>>

\* Lines 205-207.
Rtc_Toggle_Done(c) ==
    /\ AppAt(c, "rtc_toggle_flag")
    /\ s_rtc' = [s_rtc EXCEPT !.m_isActive = app[c].isActive]
    /\ SetApp(c, [app[c] EXCEPT !.pc = "done", !.retB = TRUE])
    /\ UNCHANGED <<s_uart, usart, nvic, rccUartEn, rccIopEn, afioMapr, gpio,
                   s_mcu, s_sysTick, sysTickHw, line, hist, rtcHw>>

\* Lines 216-226.
Rtc_SetCounter(c, value) ==
    /\ AppAt(c, "idle")
    /\ LET call == [RtcCall("rtc_set") EXCEPT !.value = value,
                                                 !.pc = "done"]
       IN  IF Rtc_NotReady(s_rtc)
           THEN /\ SetApp(c, [call EXCEPT !.retB = FALSE])
                /\ s_rtc' = s_rtc
           ELSE /\ SetApp(c, [call EXCEPT !.retB = TRUE])
                /\ s_rtc' = [s_rtc EXCEPT !.m_seconds = value]
    /\ UNCHANGED <<s_uart, usart, nvic, rccUartEn, rccIopEn, afioMapr, gpio,
                   s_mcu, s_sysTick, sysTickHw, line, hist, rtcHw>>

\* Lines 234-244.
Rtc_Reset(c) ==
    /\ AppAt(c, "idle")
    /\ LET call == [RtcCall("rtc_reset") EXCEPT !.pc = "done"]
       IN  IF Rtc_NotReady(s_rtc)
           THEN /\ SetApp(c, [call EXCEPT !.retB = FALSE])
                /\ s_rtc' = s_rtc
           ELSE /\ SetApp(c, [call EXCEPT !.retB = TRUE])
                /\ s_rtc' = [s_rtc EXCEPT
                                !.m_seconds = DEFAULT_SECONDS_VALUE]
    /\ UNCHANGED <<s_uart, usart, nvic, rccUartEn, rccIopEn, afioMapr, gpio,
                   s_mcu, s_sysTick, sysTickHw, line, hist, rtcHw>>

\* Lines 254-257.
Rtc_DeInit_Check(c) ==
    /\ AppAt(c, "idle")
    /\ LET call == RtcCall("rtc_deinit")
       IN  IF Rtc_NotReady(s_rtc)
           THEN SetApp(c, [call EXCEPT !.pc = "done", !.retB = FALSE])
           ELSE SetApp(c, [call EXCEPT !.pc = "rtc_deinit_off"])
    /\ UNCHANGED <<s_uart, usart, nvic, rccUartEn, rccIopEn, afioMapr, gpio,
                   s_mcu, s_sysTick, sysTickHw, line, hist, s_rtc, rtcHw>>

\* Line 260: Rtc_Toggle(false).
Rtc_DeInit_Off(c) ==
    /\ AppAt(c, "rtc_deinit_off")
    /\ IF ToggleRefused(s_rtc, FALSE)
       THEN UNCHANGED <<s_rtc, rtcHw>>
       ELSE /\ rtcHw' = ToggledHw(rtcHw, s_rtc, FALSE)
            /\ s_rtc' = [s_rtc EXCEPT !.m_isActive = FALSE]
    /\ SetApp(c, [app[c] EXCEPT !.pc = "rtc_deinit_clean"])
    /\ UNCHANGED <<s_uart, usart, nvic, rccUartEn, rccIopEn, afioMapr, gpio,
                   s_mcu, s_sysTick, sysTickHw, line, hist>>

\* Lines 261-266: Rtc_Reset() and the copy of DEFAULT_RTC_HANDLER.
Rtc_DeInit_Clean(c) ==
    /\ AppAt(c, "rtc_deinit_clean")
    /\ s_rtc' = DEFAULT_RTC_HANDLER
    /\ SetApp(c, [app[c] EXCEPT !.pc = "done", !.retB = TRUE])
    /\ UNCHANGED <<s_uart, usart, nvic, rccUartEn, rccIopEn, afioMapr, gpio,
                   s_mcu, s_sysTick, sysTickHw, line, hist, rtcHw>>

Rtc_Step(c) ==
    \/ Rtc_Init_Config(c)
    \/ Rtc_Init_Enable(c)
    \/ Rtc_Init_Done(c)
    \/ Rtc_Toggle_Hw(c)
    \/ Rtc_Toggle_Done(c)
    \/ Rtc_DeInit_Off(c)
    \/ Rtc_DeInit_Clean(c)

\* ------------------------------------------------------------------------
\* Specifications
\* ------------------------------------------------------------------------
\* The driver lifecycle on all three instances, as main() drives it: the
\* clock is set up first, then channels are configured and torn down.
InitCalls(c) ==
    \/ \E i \in Instances, pins \in Mappings, rate \in Bauds :
           s_mcu.m_isSysClkReady /\ Uart_Init_Check(c, i, pins, rate)
    \/ Uart_Init_EnableIrq(c)
    \/ Uart_Init_Done(c)

Next ==
    \/ \E clock \in CoreClocks : ~s_mcu.m_isSysClkReady /\ Rcc_InitCore(clock)
    \/ \E c \in Contexts : InitCalls(c)
    \/ \E c \in Contexts, i \in Instances : Uart_DeInit(c, i)
    \/ \E c \in Contexts : Return(c)

Spec == Init /\ [][Next]_vars

\* A channel in use.  UART1 on the pins main() gives it, after
\* Rcc_InitCore(kClock48MHz) and Uart_Init(kUart1, kUart1TxPA9_RxPA10,
\* kBaud9600), once the line has delivered p bytes and Uart_Read has taken
\* them all; the line carries n more bytes.
ChannelReady(p, n) ==
    /\ s_uart = [i \in Instances |->
                   IF i = kUart1
                   THEN [ m_isInit |-> TRUE, m_isLocked |-> FALSE,
                          m_mapping |-> kUart1TxPA9_RxPA10,
                          m_rx |-> [j \in RingIndex |->
                                      IF j < p THEN RxByte(kUart1, j) ELSE 0],
                          m_rxTail |-> p, m_rxHead |-> p ]
                   ELSE UartHandlerInit]
    /\ usart = [i \in Instances |->
                  IF i = kUart1
                  THEN [UsartConfigured(UsartReset,
                            BaudCode(CoreClockHz(kClock48MHz), 1, kBaud9600))
                          EXCEPT !.DR = IF p = 0 THEN 0
                                        ELSE RxByte(kUart1, p - 1)]
                  ELSE UsartReset]
    /\ nvic = [i \in Instances |-> i = kUart1]
    /\ rccUartEn = [i \in Instances |-> i = kUart1]
    /\ rccIopEn = {kAfioA}
    /\ afioMapr = [r1 |-> 0, r2 |-> 0, r3 |-> 0]
    /\ gpio = Afio_Init(Afio_Init([q \in UartPinSet |-> GpioReset],
                                  Pin(kAfioA, 9), kAfioPushPull),
                        Pin(kAfioA, 10), kAfioInputNoPull)
    /\ s_mcu = [ m_isSysClkReady |-> TRUE,
                 m_clock |-> CoreClockHz(kClock48MHz),
                 m_apb1Divider |-> 2, m_apb2Divider |-> 1 ]
    /\ s_sysTick = SysTickHandlerInit
    /\ sysTickHw = [LOAD |-> 0, ENABLE |-> FALSE]
    /\ app = [c \in Callers |-> IdleApp]
    /\ line = [LineInit EXCEPT !.rxCount[kUart1] = p,
                               !.rxLimit[kUart1] = p + n]
    /\ hist = [HistInit EXCEPT !.lastOk[kUart1] = "init"]
    /\ s_rtc = DEFAULT_RTC_HANDLER
    /\ rtcHw = RtcHwReset

\* Receive interrupts interleaved with Uart_Read calls on UART1.
ReadSizes == {0, 1, 2, UART_RX_BUFFER_SIZE}

InitRing == \E p \in RingStarts : ChannelReady(p, MaxRx)

NextRing ==
    \/ HwReceive(kUart1)
    \/ USART1_IRQHandler
    \/ \E c \in Contexts, hasBuf \in BOOLEAN, size \in ReadSizes :
           Uart_Read_Check(c, kUart1, hasBuf, size)
    \/ \E c \in Contexts : Uart_Read_Step(c)
    \/ \E c \in Contexts : Return(c)

SpecRing == InitRing /\ [][NextRing]_vars

\* A burst: the line delivers up to MaxBurst bytes to UART1 while nothing is
\* read, then stays quiet while Uart_Read drains the ring buffer.
AllIdle == \A c \in Callers : app[c].pc = "idle"

InitFill == \E p \in RingStarts : ChannelReady(p, MaxBurst)

NextFill ==
    \/ AllIdle /\ hist.copied[kUart1] = 0 /\ HwReceive(kUart1)
    \/ USART1_IRQHandler
    \/ \E c \in Contexts,
          size \in {Len(hist.pending[kUart1]), UART_RX_BUFFER_SIZE} :
           Uart_Read_Check(c, kUart1, TRUE, size)
    \/ \E c \in Contexts : Uart_Read_Step(c)
    \/ \E c \in Contexts : Return(c)

SpecFill == InitFill /\ [][NextFill]_vars

\* Uart_Send on UART1 against a transmitter that raises TXE at once, late
\* or never, with the tick counter running once SysTick_Init was called.
InitSend ==
    \E txe \in BOOLEAN :
        /\ ChannelReady(0, 0)!1
        /\ usart = [i \in Instances |->
                      IF i = kUart1
                      THEN [UsartConfigured(UsartReset,
                               BaudCode(CoreClockHz(kClock48MHz), 1,
                                        kBaud9600))
                              EXCEPT !.TXE = txe]
                      ELSE UsartReset]
        /\ line = [LineInit EXCEPT !.txeAt[kUart1] =
                                     IF txe THEN 0 ELSE Never]
        /\ ChannelReady(0, 0)!3
        /\ ChannelReady(0, 0)!4
        /\ ChannelReady(0, 0)!5
        /\ ChannelReady(0, 0)!6
        /\ ChannelReady(0, 0)!7
        /\ ChannelReady(0, 0)!8
        /\ ChannelReady(0, 0)!9
        /\ ChannelReady(0, 0)!10
        /\ ChannelReady(0, 0)!11
        /\ ChannelReady(0, 0)!13
        /\ ChannelReady(0, 0)!14
        /\ ChannelReady(0, 0)!15

NextSend ==
    \/ SysTick_Init(kTickMillisecs, 1)
    \/ SysTick_Handler
    \/ HwTxe(kUart1)
    \/ HwTc(kUart1)
    \/ USART1_IRQHandler
    \/ \E c \in Contexts, hasBuf \in BOOLEAN, size \in 0 .. MaxSendSize :
           Uart_Send_Check(c, kUart1, hasBuf, size)
    \/ \E c \in Contexts : Uart_Send_Step(c)
    \/ \E c \in Contexts : Return(c)

SpecSend == InitSend /\ [][NextSend]_vars

\* The tick counter and the delay, as main() uses them: SysTick_Init, then
\* reads and resets of the counter and delays of a few ticks.  The counter
\* runs up to TickSpan; the loop of Delay_Wait tests the counter at least
\* once per tick.
TickSpan == 6

DelayUnits == {0, 1, 2}

\* The step units and sizes SysTick_Init is called with: the ones of
\* main(), the other unit, and sizes at and past both ends of 1..1000.
TickSteps == {kTickMicrosecs, kTickMillisecs}

TickUnits == {0, 1, 5, MAXIMAL_STEP_SIZE + 1}

NextTick ==
    \/ \E step \in TickSteps, units \in TickUnits : SysTick_Init(step, units)
    \/ /\ s_sysTick.m_tick < TickSpan
       /\ AllIdle \/ WaitingOnDelay
       /\ SysTick_Handler
    \/ SysTick_ResetTick
    \/ \E c \in Contexts : SysTick_GetTick_Call(c)
    \/ \E c \in Contexts, units \in DelayUnits :
           /\ SysTick_GetTick + units < TickSpan
           /\ Delay_Wait_Call(c, units)
    \/ \E c \in Contexts : Delay_Wait_Loop(c)
    \/ \E c \in Contexts : Return(c)

SpecTick == InitSend /\ [][NextTick]_vars

\* The RTC driver from reset, as main() uses it: Rtc_Init, Rtc_Toggle,
\* Rtc_SetCounter, Rtc_Reset and Rtc_DeInit in any order while the RTC
\* counts seconds.
RtcSources == {kLseSource, kLsiSource, kHseDiv128}

CounterValues == {0, 5}

NextRtc ==
    \/ \E c \in Contexts, source \in RtcSources, isActive \in BOOLEAN :
           Rtc_Init_Check(c, source, isActive)
    \/ \E c \in Contexts, isActive \in BOOLEAN : Rtc_Toggle_Check(c, isActive)
    \/ \E c \in Contexts, value \in CounterValues : Rtc_SetCounter(c, value)
    \/ \E c \in Contexts : Rtc_Reset(c)
    \/ \E c \in Contexts : Rtc_DeInit_Check(c)
    \/ \E c \in Contexts : Rtc_Step(c)
    \/ \E c \in Contexts : Return(c)
    \/ HwSecond
    \/ RTC_IRQHandler

SpecRtc == Init /\ [][NextRtc]_vars

\* Two application contexts that preempt each other at any step, both
\* sending one byte at a time on UART1, with the transmitter and the
\* transmit-complete interrupt running; the tick counter is not started.
InitPair ==
    /\ InitSend!(TRUE)!1 /\ InitSend!(TRUE)!2 /\ InitSend!(TRUE)!4
    /\ InitSend!(TRUE)!5 /\ InitSend!(TRUE)!6 /\ InitSend!(TRUE)!7
    /\ InitSend!(TRUE)!8 /\ InitSend!(TRUE)!9 /\ InitSend!(TRUE)!10
    /\ InitSend!(TRUE)!11 /\ InitSend!(TRUE)!12 /\ InitSend!(TRUE)!13
    /\ InitSend!(TRUE)!14 /\ InitSend!(TRUE)!15
    /\ line = [LineInit EXCEPT !.nested = FALSE]

NextPair ==
    \/ \E c \in Callers : Uart_Send_Check(c, kUart1, TRUE, 1)
    \/ \E c \in Callers : Uart_Send_Step(c)
    \/ \E c \in Callers : Return(c)
    \/ HwTxe(kUart1)
    \/ HwTc(kUart1)
    \/ USART1_IRQHandler

SpecPair == InitPair /\ [][NextPair]_vars

\* The three channels brought up from reset, each on its first mapping,
\* while every line delivers bytes to its USART.
DefaultMapping(instance) ==
    IF instance = kUart1 THEN kUart1TxPA9_RxPA10
    ELSE IF instance = kUart2 THEN kUart2TxPA2_RxPA3
    ELSE kUart3TxPB10_RxPB11

\* The interrupt handler the vector table binds to USARTi.
IRQHandler(i) ==
    IF i = kUart1 THEN USART1_IRQHandler
    ELSE IF i = kUart2 THEN USART2_IRQHandler
    ELSE USART3_IRQHandler

InitIrq ==
    /\ Init!1 /\ Init!2 /\ Init!3 /\ Init!4 /\ Init!5 /\ Init!6 /\ Init!7
    /\ Init!8 /\ Init!9 /\ Init!10 /\ Init!11 /\ Init!13
    /\ Init!14 /\ Init!15
    /\ line = [LineInit EXCEPT !.rxLimit = [i \in Instances |-> MaxIrqRx]]

NextIrq ==
    \/ \E clock \in CoreClocks : ~s_mcu.m_isSysClkReady /\ Rcc_InitCore(clock)
    \/ \E c \in Contexts, i \in Instances, rate \in Bauds :
           s_mcu.m_isSysClkReady
           /\ Uart_Init_Check(c, i, DefaultMapping(i), rate)
    \/ \E c \in Contexts : Uart_Init_EnableIrq(c)
    \/ \E c \in Contexts : Uart_Init_Done(c)
    \/ \E c \in Contexts : Return(c)
    \/ \E i \in Instances : HwReceive(i)
    \/ \E i \in Instances : IRQHandler(i)

SpecIrq == InitIrq /\ [][NextIrq]_vars

\* UART1 from reset with two callers: main() brings the channel up and
\* tears it down and calls Uart_Read and Uart_Send with every kind of
\* argument; the context that preempts it makes the calls the guards are
\* there to turn away (lock held, channel down, no buffer, size 0).
GuardSizes == {0, 1}

TurnedAway(h, hasBuf, size) ==
    h.m_isLocked \/ ~h.m_isInit \/ ~hasBuf \/ size = 0

InitGuard ==
    /\ Init!1 /\ Init!2 /\ Init!3 /\ Init!4 /\ Init!5 /\ Init!6 /\ Init!7
    /\ Init!8 /\ Init!9 /\ Init!10 /\ Init!11 /\ Init!13
    /\ Init!14 /\ Init!15
    /\ line = [LineInit EXCEPT !.rxLimit[kUart1] = MaxIrqRx]

NextGuard ==
    \/ \E clock \in CoreClocks : ~s_mcu.m_isSysClkReady /\ Rcc_InitCore(clock)
    \/ \E c \in Contexts, rate \in Bauds :
           s_mcu.m_isSysClkReady
           /\ Uart_Init_Check(c, kUart1, DefaultMapping(kUart1), rate)
    \/ \E c \in Contexts : Uart_Init_EnableIrq(c)
    \/ \E c \in Contexts : Uart_Init_Done(c)
    \/ \E c \in Contexts : Uart_DeInit(c, kUart1)
    \/ \E c \in Callers, hasBuf \in BOOLEAN, size \in GuardSizes :
           /\ c = "task" => TurnedAway(s_uart[kUart1], hasBuf, size)
           /\ Uart_Read_Check(c, kUart1, hasBuf, size)
    \/ \E c \in Callers : Uart_Read_Step(c)
    \/ \E c \in Callers, hasBuf \in BOOLEAN, size \in GuardSizes :
           /\ c = "task" => TurnedAway(s_uart[kUart1], hasBuf, size)
           /\ Uart_Send_Check(c, kUart1, hasBuf, size)
    \/ \E c \in Callers : Uart_Send_Step(c)
    \/ \E c \in Callers : Return(c)
    \/ HwReceive(kUart1)
    \/ USART1_IRQHandler
    \/ HwTxe(kUart1)
    \/ HwTc(kUart1)

SpecGuard == InitGuard /\ [][NextGuard]_vars

\* ------------------------------------------------------------------------
\* Properties
\* ------------------------------------------------------------------------
Finished(c, op) == app[c].pc = "done" /\ app[c].op = op

\* A finished call whose guard (initialized, buffer, size, lock) had passed.
PassedGuard(c) ==
    /\ app[c].preInit /\ ~app[c].preLocked
    /\ app[c].hasBuf /\ app[c].size >= 1

\* A finished Uart_Read that found n bytes appended and not yet read, the
\* first bytes read since the channel was set up.
FirstReadOf(c, n) ==
    /\ Finished(c, "read") /\ PassedGuard(c)
    /\ Len(app[c].queued) = n
    /\ hist.copied[app[c].inst] = Len(app[c].out)

\* C1 as stated: after the interrupt appended b0..bn, for any n < 256 (1 to
\* 256 bytes), to an empty ring buffer, one Uart_Read with size at least
\* that number returns the number and delivers exactly the bytes, in order.
C1_RoundTripAnyN ==
    \A c \in Contexts : \A n \in 1 .. UART_RX_BUFFER_SIZE :
        (FirstReadOf(c, n) /\ app[c].size >= n)
            => (app[c].retN = n /\ app[c].out = app[c].queued)

\* C1 amended: the same for 1 to 255 appended bytes (fewer than
\* UART_RX_BUFFER_SIZE).
C1_RoundTrip ==
    \A c \in Contexts : \A n \in 1 .. (UART_RX_BUFFER_SIZE - 1) :
        (FirstReadOf(c, n) /\ app[c].size >= n)
            => (app[c].retN = n /\ app[c].out = app[c].queued)

C1_Witness ==
    \E c \in Contexts :
        /\ FirstReadOf(c, UART_RX_BUFFER_SIZE - 1)
        /\ app[c].preTail = UART_RX_BUFFER_SIZE - 2
        /\ app[c].retN = UART_RX_BUFFER_SIZE - 1
        /\ app[c].out = app[c].queued

\* C2: a Uart_Read with 0 < size < n on a ring buffer holding n unread
\* bytes returns size, delivers the size oldest bytes and advances the read
\* cursor by exactly size modulo 256, leaving n - size bytes unread.
C2_PartialRead ==
    \A c \in Contexts :
        (/\ Finished(c, "read") /\ PassedGuard(c)
         /\ app[c].size < Len(app[c].queued)
         /\ Len(app[c].queued) < UART_RX_BUFFER_SIZE)
        => /\ app[c].retN = app[c].size
           /\ Len(app[c].out) >= app[c].size
           /\ SubSeq(app[c].out, 1, app[c].size)
                  = SubSeq(app[c].queued, 1, app[c].size)
           /\ s_uart[app[c].inst].m_rxTail
                  = (app[c].preTail + app[c].size) % UART_RX_BUFFER_SIZE

\* C3: a Uart_Read that returns k has written exactly k bytes to the
\* caller's buffer, never more than size, and has advanced the read cursor
\* by exactly k modulo 256, whatever the receive interrupt did meanwhile.
C3_ReturnCountsCopies ==
    \A c \in Contexts :
        Finished(c, "read")
        => /\ Len(app[c].out) = app[c].retN
           /\ Len(app[c].out) <= app[c].size
           /\ s_uart[app[c].inst].m_rxTail
                  = (app[c].preTail + app[c].retN) % UART_RX_BUFFER_SIZE

\* C4: FIFO order.  While the unread bytes never reach 256, every byte a
\* Uart_Read copies out of the ring buffer is the oldest byte the interrupt
\* appended that no read has copied yet: none twice, none out of order.
C4_FifoOrder ==
    \A c \in Contexts :
        (app[c].op = "read" /\ ~hist.overflowed[app[c].inst])
            => app[c].out = app[c].taken

C4_Witness ==
    \E c \in Contexts :
        /\ Finished(c, "read")
        /\ app[c].preTail = UART_RX_BUFFER_SIZE - 2
        /\ Len(app[c].out) > Len(app[c].queued)
        /\ Len(app[c].out) >= 3
        /\ app[c].out = app[c].taken

\* C5: Uart_Read on an initialized, unlocked channel whose cursors are
\* equal returns 0 and changes neither the cursors, the ring buffer, the
\* lock flag nor the caller's buffer.
C5_EmptyRead ==
    [][\A c \in Contexts :
         (/\ app[c].pc = "idle"
          /\ app'[c].op = "read"
          /\ s_uart[app'[c].inst].m_isInit
          /\ ~s_uart[app'[c].inst].m_isLocked
          /\ s_uart[app'[c].inst].m_rxTail = s_uart[app'[c].inst].m_rxHead)
         => /\ app'[c].pc = "done"
            /\ app'[c].retN = 0
            /\ app'[c].out = << >>
            /\ s_uart' = s_uart]_vars

C5_Witness ==
    \E c \in Contexts :
        /\ Finished(c, "read") /\ PassedGuard(c)
        /\ app[c].queued = << >>
        /\ hist.copied[app[c].inst] > 0
        /\ app[c].retN = 0 /\ app[c].out = << >>
        /\ s_uart[app[c].inst].m_rxTail = app[c].preTail
        /\ s_uart[app[c].inst].m_rxHead = app[c].preTail

\* C6: with TXE found set at every check, Uart_Send of L >= 1 bytes returns
\* true after exactly L writes of the data register, data[0..L-1] in order
\* (so nothing at index >= L is read).
C6_SendWritesExactlySize ==
    \A c \in Contexts :
        (Finished(c, "send") /\ PassedGuard(c) /\ ~app[c].txeMissed)
            => (app[c].retB /\ app[c].written = app[c].data)

\* C7: when no check finds TXE set, Uart_Send returns false, has written
\* at most one byte, and returns only after the tick counter has passed the
\* tick of the call plus UART_DEFAULT_TIMEOUT.
C7_SendTimeout ==
    \A c \in Contexts :
        (Finished(c, "send") /\ PassedGuard(c) /\ ~app[c].txeSeen)
            => /\ ~app[c].retB
               /\ Len(app[c].written) <= 1
               /\ s_sysTick.m_tick > app[c].callTick + UART_DEFAULT_TIMEOUT

C7_Witness ==
    \E c \in Contexts :
        /\ Finished(c, "send") /\ PassedGuard(c) /\ ~app[c].txeSeen
        /\ s_sysTick.m_isInit
        /\ ~app[c].retB
        /\ app[c].written = << >>
        /\ s_sysTick.m_tick = app[c].callTick + UART_DEFAULT_TIMEOUT + 1

\* C8: Uart_Send returns true exactly when its guard passed and every one
\* of the size bytes was written to the data register, whatever the
\* transmitter does (it may take size bytes and then stop raising TXE).
C8_SendResultIffAllWritten ==
    \A c \in Contexts :
        Finished(c, "send")
        => (app[c].retB <=>
               /\ PassedGuard(c)
               /\ Len(app[c].written) >= app[c].size
               /\ SubSeq(app[c].written, 1, app[c].size) = app[c].data)

\* The mappings the header lists for each instance.
LegalMappings(instance) ==
    IF instance = kUart1 THEN {kUart1TxPA9_RxPA10, kUart1TxPB6_RxPB7}
    ELSE IF instance = kUart2 THEN {kUart2TxPA2_RxPA3, kUart2TxPD5_RxPD6}
    ELSE {kUart3TxPB10_RxPB11, kUart3TxPC10_RxPC11, kUart3TxPD8_RxPD9}

\* C9: with a mapping of the instance's legal subset, Uart_Init returns
\* true exactly when no Uart_Init of that instance has succeeded since the
\* start or since its last successful Uart_DeInit; with any mapping it
\* returns false while such a Uart_Init stands.
C9_InitOncePerLifecycle ==
    \A c \in Contexts :
        Finished(c, "init")
        => /\ app[c].pins \in LegalMappings(app[c].inst)
                  => (app[c].retB <=> app[c].preLast # "init")
           /\ app[c].preLast = "init" => ~app[c].retB

C9_Witness ==
    \E c \in Contexts :
        /\ Finished(c, "init")
        /\ app[c].pins \in LegalMappings(app[c].inst)
        /\ app[c].preLast = "deinit"
        /\ app[c].retB
        /\ s_uart[app[c].inst].m_isInit

\* C10: with a mapping of another instance's legal subset, Uart_Init
\* returns false and leaves the initialized flag as it was.
C10_ForeignMappingRejected ==
    \A c \in Contexts :
        (Finished(c, "init") /\ app[c].pins \notin LegalMappings(app[c].inst))
            => /\ ~app[c].retB
               /\ s_uart[app[c].inst].m_isInit = app[c].preInit

\* C11: when the handler of an instance runs with that instance's RXNE
\* set, the byte in that instance's data register is stored at m_rxHead of
\* its ring buffer, m_rxHead advances by one modulo 256 and m_rxTail stays;
\* when it runs with neither RXNE nor ORE set, nothing is appended.
C11_HandlerStoresOwnByte ==
    [][\A i \in Instances :
         IRQHandler(i)
         => LET h == s_uart[i]
            IN  /\ usart[i].RXNE
                   => /\ s_uart'[i].m_rx =
                             [h.m_rx EXCEPT ![h.m_rxHead] = usart[i].DR % 256]
                      /\ s_uart'[i].m_rxHead
                             = (h.m_rxHead + 1) % UART_RX_BUFFER_SIZE
                      /\ s_uart'[i].m_rxTail = h.m_rxTail
                /\ (~usart[i].RXNE /\ ~usart[i].ORE)
                   => /\ s_uart'[i].m_rx = h.m_rx
                      /\ s_uart'[i].m_rxHead = h.m_rxHead
                      /\ s_uart'[i].m_rxTail = h.m_rxTail]_vars

\* The baud register for a divisor clock / prescaler / rate / 16 in the
\* hardware format: the integer part in bits 15..4 and the fractional part
\* in sixteenths, rounded, in bits 3..0.
BrrRounded(clock, prescaler, rate) ==
    LET d == prescaler * rate
        sixteenths == (2 * clock + d) \div (2 * d)
        mantissa == clock \div (16 * d)
    IN  mantissa * 16 + (sixteenths - 16 * mantissa)

\* C12: a successful Uart_Init leaves in the baud register the mantissa of
\* clock / prescaler / baud / 16 in bits 15..4 and the rounded sixteenths of
\* its fractional part in bits 3..0 (312 and 8 for 48 MHz, prescaler 1,
\* 9600 baud).
C12_BaudRegister ==
    \A c \in Contexts :
        (Finished(c, "init") /\ app[c].retB)
            => usart[app[c].inst].BRR
                   = BrrRounded(Rcc_GetSystemClock, BusPrescaler(app[c].inst),
                                app[c].rate)

\* Everything the driver and the hardware hold: the handlers, the USART,
\* NVIC, RCC, AFIO and GPIO registers, the clock record and the tick.
DriverState ==
    <<s_uart, usart, nvic, rccUartEn, rccIopEn, afioMapr, gpio, s_mcu,
      s_sysTick, sysTickHw>>

\* C13: Uart_Read called on a channel that is not initialized, with a null
\* pointer, with size 0 or while the lock is set returns 0, copies nothing
\* and changes nothing (the handler, its ring and cursors, the registers).
C13_ReadGuard ==
    [][\A c \in Callers :
         (/\ app[c].pc = "idle"
          /\ app'[c].op = "read"
          /\ \/ ~s_uart[app'[c].inst].m_isInit
             \/ ~app'[c].hasBuf
             \/ app'[c].size = 0
             \/ s_uart[app'[c].inst].m_isLocked)
         => /\ app'[c].pc = "done"
            /\ app'[c].retN = 0
            /\ app'[c].out = << >>
            /\ UNCHANGED DriverState]_vars

\* A read with a buffer and a size, on an initialized channel with bytes
\* queued, was turned away because the lock was set.
C13_Witness ==
    \E c \in Callers :
        /\ Finished(c, "read")
        /\ app[c].preInit /\ app[c].preLocked
        /\ app[c].hasBuf /\ app[c].size > 0
        /\ app[c].queued # << >>
        /\ app[c].retN = 0

\* C14: Uart_Send called on a channel that is not initialized, with a null
\* pointer, with size 0 or while the lock is set returns false, writes
\* nothing to the data register, clears no status flag and leaves the lock
\* as it was.
C14_SendGuard ==
    [][\A c \in Callers :
         (/\ app[c].pc = "idle"
          /\ app'[c].op = "send"
          /\ \/ ~s_uart[app'[c].inst].m_isInit
             \/ ~app'[c].hasBuf
             \/ app'[c].size = 0
             \/ s_uart[app'[c].inst].m_isLocked)
         => /\ app'[c].pc = "done"
            /\ ~app'[c].retB
            /\ app'[c].written = << >>
            /\ usart' = usart
            /\ s_uart' = s_uart]_vars

\* A send with a buffer and a size, on an initialized channel, was turned
\* away because the lock was set, and the lock is still set.
C14_Witness ==
    \E c \in Callers :
        /\ Finished(c, "send")
        /\ app[c].preInit /\ app[c].preLocked
        /\ app[c].hasBuf /\ app[c].size > 0
        /\ ~app[c].retB
        /\ s_uart[app[c].inst].m_isLocked

\* C15: Uart_DeInit on a channel that is not initialized returns false and
\* changes nothing; on an initialized channel it returns true and leaves the
\* channel not initialized, its interrupt line disabled, UE cleared, every
\* ring slot zero and both cursors at 0.
C15_DeInit ==
    [][\A c \in Callers :
         (app[c].pc = "idle" /\ app'[c].op = "deinit")
         => LET i == app'[c].inst
            IN  IF ~s_uart[i].m_isInit
                THEN /\ app'[c].pc = "done"
                     /\ ~app'[c].retB
                     /\ UNCHANGED DriverState
                ELSE /\ app'[c].pc = "done"
                     /\ app'[c].retB
                     /\ ~s_uart'[i].m_isInit
                     /\ ~nvic'[i]
                     /\ ~usart'[i].UE
                     /\ s_uart'[i].m_rx = ZeroRx
                     /\ s_uart'[i].m_rxHead = 0
                     /\ s_uart'[i].m_rxTail = 0]_vars

\* Uart_DeInit succeeded on a channel that had bytes read from it and
\* bytes still queued.
C15_Witness ==
    \E c \in Callers :
        /\ Finished(c, "deinit")
        /\ app[c].retB
        /\ app[c].preTail > 0
        /\ app[c].queued # << >>
        /\ s_uart[app[c].inst].m_rxHead = 0

\* C16: after a successful Uart_DeInit of an instance, the TX pin and the RX
\* pin that Uart_Init configured for the instance's accepted mapping have
\* their mode and configuration bits reset.
C16_DeInitReleasesPins ==
    \A c \in Contexts :
        (Finished(c, "deinit") /\ app[c].retB)
            => \A k \in {1, 2} :
                   gpio[InitPins(app[c].pins)[k]] = [mode |-> 0, cnf |-> 0]

\* C17: a Uart_Init call that fails returns at its checks and changes
\* nothing: the handler (flag, mapping, cursors, ring), the UART registers,
\* the remap register, the pins, the clock enables and the interrupt
\* enables are as before the call; a call on an initialized channel fails.
C17_FailedInitChangesNothing ==
    [][\A c \in Contexts :
         (app[c].pc = "idle" /\ app'[c].op = "init")
         => /\ s_uart[app'[c].inst].m_isInit => app'[c].pc = "done"
            /\ app'[c].pc = "done"
                   => ~app'[c].retB /\ UNCHANGED DriverState]_vars

\* Uart_Init failed on a channel that was initialized with another mapping,
\* which it still has, while its clock is running.
C17_Witness ==
    \E c \in Contexts :
        /\ Finished(c, "init")
        /\ ~app[c].retB
        /\ app[c].preInit
        /\ MappingAccepted(app[c].inst, app[c].pins)
        /\ s_uart[app[c].inst].m_mapping # app[c].pins
        /\ rccUartEn[app[c].inst]

\* C18: whenever no Uart_Init or Uart_DeInit call is under way, the clock
\* enable bit of each instance is set exactly when the instance is
\* initialized; Uart_DeInit of an instance clears that instance's bit and
\* leaves the bits of the other instances and the stored bus prescalers as
\* they were.
C18_ClockEnable ==
    [][/\ (\A c \in Callers : app'[c].pc \in {"idle", "done"})
          => \A i \in Instances : rccUartEn'[i] <=> s_uart'[i].m_isInit
       /\ \A c \in Contexts :
             (app[c].pc = "idle" /\ app'[c].op = "deinit")
             => /\ s_uart[app'[c].inst].m_isInit => ~rccUartEn'[app'[c].inst]
                /\ \A j \in Instances \ {app'[c].inst} :
                       rccUartEn'[j] = rccUartEn[j]
                /\ s_mcu' = s_mcu]_vars

\* Uart_DeInit succeeded on one instance while the two others were
\* initialized, and their clocks still run.
C18_Witness ==
    \E c \in Contexts :
        /\ Finished(c, "deinit")
        /\ app[c].retB
        /\ ~rccUartEn[app[c].inst]
        /\ \A j \in Instances \ {app[c].inst} :
               s_uart[j].m_isInit /\ rccUartEn[j]

\* C19: the value a SysTick_GetTick call returns is never below the value
\* the call before it returned, whatever SysTick_Init, SysTick_Handler and
\* SysTick_ResetTick did in between.
C19_TickMonotonic ==
    [][\A c \in Contexts :
         (app[c].pc = "idle" /\ app'[c].op = "tick")
         => app'[c].retN >= hist.lastTick]_vars

\* C20: Delay_Wait(units) called at tick t has returned on the test that
\* read tick t + units.
C20_DelayExact ==
    \A c \in Contexts :
        Finished(c, "delay")
            => app[c].retN = app[c].callTick + app[c].size

\* The step size SysTick_Init is documented to use for a requested one.
ClampUnits(units) ==
    IF units > MAXIMAL_STEP_SIZE THEN MAXIMAL_STEP_SIZE
    ELSE IF units = 0 THEN 1 ELSE units

\* C21: once SysTick_Init(step, units) has initialized the timer,
\* SysTick_GetTickLength returns the requested period: the clamped units for
\* kTickMicrosecs and 1000 times the clamped units for kTickMillisecs.
C21_TickLength ==
    s_sysTick.m_isInit
        => SysTick_GetTickLength
               = IF hist.asked[1] = kTickMicrosecs
                 THEN ClampUnits(hist.asked[2])
                 ELSE 1000 * ClampUnits(hist.asked[2])

\* C22: Rtc_Init returns true exactly when the driver was not initialized
\* and Rtc_DeInit exactly when it was; on a driver that is not initialized
\* Rtc_Toggle, Rtc_SetCounter, Rtc_Reset and Rtc_DeInit return false and
\* leave the handler as it was; after a successful Rtc_DeInit the handler
\* is not initialized, not active and holds the default counter and source.
C22_RtcLifecycle ==
    [][\A c \in Contexts :
         (app[c].pc # "done" /\ app'[c].pc = "done")
         => LET call == app'[c]
            IN  /\ call.op = "rtc_init"
                       => (call.retB <=> ~call.preRtc.m_isInit)
                /\ call.op = "rtc_deinit"
                       => /\ call.retB <=> call.preRtc.m_isInit
                          /\ call.retB
                                => /\ ~s_rtc'.m_isInit
                                   /\ ~s_rtc'.m_isActive
                                   /\ s_rtc'.m_seconds = DEFAULT_SECONDS_VALUE
                                   /\ s_rtc'.m_source = kLsiSource
                /\ (/\ call.op \in {"rtc_toggle", "rtc_set", "rtc_reset",
                                     "rtc_deinit"}
                    /\ ~call.preRtc.m_isInit)
                       => ~call.retB /\ s_rtc' = call.preRtc]_vars

\* Rtc_DeInit succeeded on a driver that was active, on another source than
\* the default one, and had counted seconds.
C22_Witness ==
    \E c \in Contexts :
        /\ Finished(c, "rtc_deinit")
        /\ app[c].retB
        /\ app[c].preRtc.m_isActive
        /\ app[c].preRtc.m_source # kLsiSource
        /\ app[c].preRtc.m_seconds > 0
        /\ ~s_rtc.m_isInit

\* C23: on an initialized driver Rtc_Toggle(x) returns false and changes
\* nothing when x is the current activity state, and otherwise returns true
\* with the activity state x; whenever no RTC call is under way the RTC
\* interrupt line is enabled exactly when the driver is initialized and
\* active.
C23_RtcToggle ==
    [][/\ \A c \in Contexts :
             (/\ app[c].pc # "done" /\ app'[c].pc = "done"
              /\ app'[c].op = "rtc_toggle"
              /\ app'[c].preRtc.m_isInit)
             => IF app'[c].preRtc.m_isActive = app'[c].isActive
                THEN /\ ~app'[c].retB
                     /\ s_rtc' = s_rtc
                     /\ rtcHw' = rtcHw
                ELSE /\ app'[c].retB
                     /\ s_rtc'.m_isActive = app'[c].isActive
       /\ (\A c \in Callers : app'[c].pc \in {"idle", "done"})
             => (rtcHw'.nvic <=> s_rtc'.m_isInit /\ s_rtc'.m_isActive)]_vars

\* Rtc_Toggle(false) succeeded on an active driver that had counted a
\* second: the interrupt line is disabled.
C23_Witness ==
    \E c \in Contexts :
        /\ Finished(c, "rtc_toggle")
        /\ app[c].retB
        /\ ~app[c].isActive
        /\ app[c].preRtc.m_isActive
        /\ s_rtc.m_seconds >= 0
        /\ ~rtcHw.nvic

\* The positions of Uart_Read and Uart_Send after the step that sets
\* m_isLocked and up to the step that clears it.
LockedSection ==
    {"read_cmp", "read_count", "read_copy", "read_wrap", "read_loop",
     "read_unlock", "send_clear", "send_deadline", "send_txe", "send_rearm",
     "send_while", "send_result"}

\* C24: from the step at which Uart_Read or Uart_Send sets m_isLocked to
\* the step at which it clears it, m_isLocked of the instance is true,
\* also after the instance's interrupt handler has run in between.
C24_LockHeld ==
    \A c \in Contexts :
        app[c].pc \in LockedSection => s_uart[app[c].inst].m_isLocked

\* C25: two application contexts that preempt each other and call
\* Uart_Read or Uart_Send on the same initialized instance are never both
\* inside the section between the setting and the clearing of m_isLocked.
C25_MutualExclusion ==
    ~(/\ app["main"].pc \in LockedSection
      /\ app["task"].pc \in LockedSection
      /\ app["main"].inst = app["task"].inst)


\* The TXE flag the failed wait was for is set, and it was set no more than
\* UART_DEFAULT_TIMEOUT ticks after the last write of DR (after the call
\* started, when nothing was written).
TxeWithinTimeout(c) ==
    LET i == app[c].inst
    IN  /\ usart[i].TXE
        /\ line.txeSetAt[i] # Never
        /\ line.txeSetAt[i] <= app[c].wroteAt + UART_DEFAULT_TIMEOUT

\* C26, as stated: a Uart_Send whose guard passed never fails when the TXE
\* flag it waits for is set within UART_DEFAULT_TIMEOUT ticks of the
\* previous write (of the start of the call, before the first write).
C26_TimelyTxeNeverFails ==
    \A c \in Contexts :
        (Finished(c, "send") /\ PassedGuard(c) /\ TxeWithinTimeout(c))
            => app[c].retB

\* C26, amended: the deadline is set to the tick counter plus
\* UART_DEFAULT_TIMEOUT at the start of the loop and after every write that
\* does not end it, and a Uart_Send whose guard passed fails only with the
\* tick counter beyond a deadline that is at least UART_DEFAULT_TIMEOUT ticks
\* after the last write (after the start of the call, when nothing was
\* written).
C26_DeadlinePerByte ==
    [][\A c \in Contexts :
        /\ (/\ app[c].pc \in {"send_deadline", "send_rearm"}
            /\ app'[c].pc # app[c].pc)
           => app'[c].l_endTick = s_sysTick.m_tick + UART_DEFAULT_TIMEOUT
        /\ (/\ app[c].pc = "send_result" /\ app'[c].pc = "done"
            /\ ~app'[c].retB)
           => /\ s_sysTick.m_tick > app[c].l_endTick
              /\ app[c].l_endTick >= app[c].wroteAt + UART_DEFAULT_TIMEOUT
      ]_vars

\* A send that wrote a byte, had its deadline set again and then gave up
\* once the tick counter passed that deadline.
C26_Witness ==
    \E c \in Contexts :
        /\ Finished(c, "send") /\ PassedGuard(c) /\ ~app[c].retB
        /\ Len(app[c].written) >= 1
        /\ app[c].l_endTick = app[c].wroteAt + UART_DEFAULT_TIMEOUT
        /\ s_sysTick.m_tick = app[c].l_endTick + 1


\* A transmitter that empties the data register at once after every write,
\* and calls of Uart_Send with size 1 and with the largest size a uint16_t
\* holds.
UINT16_MAX == UINT16_MOD - 1

\* Writes a call with size UINT16_MAX has left, in SendLoopAfter, before
\* l_index reaches UINT16_MAX.
WrapLead == 2

\* The channel of InitSend, idle.
WrapIdle ==
    /\ InitSend!(TRUE)!1
    /\ InitSend!(TRUE)!2
    /\ line = [LineInit EXCEPT !.txeWhen = {AtOnce}]
    /\ InitSend!(TRUE)!4
    /\ InitSend!(TRUE)!5
    /\ InitSend!(TRUE)!6
    /\ InitSend!(TRUE)!7
    /\ InitSend!(TRUE)!8
    /\ InitSend!(TRUE)!9
    /\ InitSend!(TRUE)!10
    /\ InitSend!(TRUE)!11
    /\ InitSend!(TRUE)!12
    /\ InitSend!(TRUE)!13
    /\ InitSend!(TRUE)!14
    /\ InitSend!(TRUE)!15

\* The state that SysTick_Init(kTickMillisecs, 1) and then n >= MaxLog
\* iterations of the loop of Uart_Send(kUart1, buf, UINT16_MAX) lead to from
\* WrapIdle when no tick interrupt comes in between: the channel is locked,
\* the call is about to test TXE for byte n.
SendLoopAfter(n) ==
    /\ s_uart = [i \in Instances |->
                   IF i = kUart1
                   THEN [ m_isInit |-> TRUE, m_isLocked |-> TRUE,
                          m_mapping |-> kUart1TxPA9_RxPA10,
                          m_rx |-> [j \in RingIndex |-> 0],
                          m_rxTail |-> 0, m_rxHead |-> 0 ]
                   ELSE UartHandlerInit]
    /\ usart = [i \in Instances |->
                  IF i = kUart1
                  THEN [UsartConfigured(UsartReset,
                            BaudCode(CoreClockHz(kClock48MHz), 1, kBaud9600))
                          EXCEPT !.TXE = TRUE, !.TC = FALSE, !.RXNE = FALSE]
                  ELSE UsartReset]
    /\ line = [LineInit EXCEPT !.txeWhen = {AtOnce}, !.tcDue[kUart1] = TRUE]
    /\ InitSend!(TRUE)!4
    /\ InitSend!(TRUE)!5
    /\ InitSend!(TRUE)!6
    /\ InitSend!(TRUE)!7
    /\ InitSend!(TRUE)!8
    /\ InitSend!(TRUE)!9
    /\ s_sysTick = [SysTickHandlerInit EXCEPT !.m_isInit = TRUE]
    /\ sysTickHw = [LOAD |-> (CoreClockHz(kClock48MHz) \div 1000) - 1,
                    ENABLE |-> TRUE]
    /\ app = [c \in Callers |->
                IF c = "main"
                THEN [IdleApp EXCEPT
                        !.pc = "send_txe", !.op = "send", !.inst = kUart1,
                        !.size = UINT16_MAX, !.hasBuf = TRUE,
                        !.data = TxData(MaxLog), !.written = TxData(MaxLog),
                        !.l_index = n, !.l_endTick = Deadline(0),
                        !.txeSeen = TRUE, !.preInit = TRUE]
                ELSE IdleApp]
    /\ hist = [HistInit EXCEPT !.lastOk[kUart1] = "init",
                               !.asked = <<kTickMillisecs, 1>>]
    /\ InitSend!(TRUE)!14
    /\ InitSend!(TRUE)!15

InitWrap == WrapIdle \/ SendLoopAfter(UINT16_MAX - WrapLead)

NextWrap ==
    \/ SysTick_Init(kTickMillisecs, 1)
    \/ SysTick_Handler
    \/ \E size \in {1, UINT16_MAX} :
           Uart_Send_Check("main", kUart1, TRUE, size)
    \/ Uart_Send_Step("main")

SpecWrap == InitWrap /\ [][NextWrap]_vars

\* C27: a Uart_Send whose guard passed returns: a wait for TXE ends with its
\* deadline, and every write of DR takes l_index one step towards size + 1,
\* where the loop ends.  So l_index, after a write that did not end the
\* loop, lies between 1 and size; it never starts again from 0, the value
\* the loop began with.
C27_SendLoopEnds ==
    \A c \in Contexts :
        (/\ app[c].op = "send"
         /\ app[c].pc \in {"send_rearm", "send_while", "send_txe"}
         /\ app[c].txeSeen)
            => app[c].l_index \in 1 .. app[c].size

\* Passes the copy loop of Uart_Read has to make before its condition of
\* line 542 fails, if nothing is appended meanwhile.
LeftToCopy(h) ==
    (h.m_rxHead - (h.m_rxTail % UART_RX_BUFFER_SIZE)) % UART_RX_BUFFER_SIZE

CopyLoop == {"read_copy", "read_wrap", "read_loop"}

\* C28: Uart_Read returns after a finite number of steps whatever the
\* receive interrupt does meanwhile: while the copy loop runs, no step, of
\* the loop or of the interrupt, adds to the passes the loop has left to
\* make, so that the loop ends after the passes it had to make at first.
C28_ReadLoopProgress ==
    [][\A c \in Contexts :
        (/\ app[c].op = "read"
         /\ app[c].pc \in CopyLoop
         /\ app'[c].pc \in CopyLoop)
            => LeftToCopy(s_uart'[app[c].inst])
                  <= LeftToCopy(s_uart[app[c].inst])
      ]_vars

\* C29: with UART_RX_BUFFER_SIZE bytes appended to the empty ring and none
\* read, the cursors are equal and a Uart_Read whose guard passed returns 0
\* and copies nothing; with k more bytes appended, the Uart_Read with
\* size >= k returns k, and what it finds in the k oldest slots are the k
\* newest bytes.
C29_SilentOverflow ==
    /\ (/\ Len(hist.pending[kUart1]) = UART_RX_BUFFER_SIZE
        /\ hist.copied[kUart1] = 0)
       => s_uart[kUart1].m_rxHead = s_uart[kUart1].m_rxTail
    /\ \A c \in Contexts :
        /\ FirstReadOf(c, UART_RX_BUFFER_SIZE)
           => (app[c].retN = 0 /\ app[c].out = << >>)
        /\ \A k \in 1 .. (MaxBurst - UART_RX_BUFFER_SIZE) :
              (FirstReadOf(c, UART_RX_BUFFER_SIZE + k) /\ app[c].size >= k)
                 => /\ app[c].retN = k
                    /\ app[c].out = SubSeq(app[c].queued,
                                            UART_RX_BUFFER_SIZE + 1,
                                            UART_RX_BUFFER_SIZE + k)

\* A read after UART_RX_BUFFER_SIZE + 1 bytes were appended: it returns 1,
\* the byte appended last.
C29_Witness ==
    \E c \in Contexts :
        /\ FirstReadOf(c, UART_RX_BUFFER_SIZE + 1)
        /\ app[c].retN = 1
        /\ app[c].out = <<RxByte(kUart1, UART_RX_BUFFER_SIZE)>>

\* C30, as stated: over all operations of the driver, m_rxHead is changed
\* only by the receive interrupt handler and m_rxTail only by Uart_Read.
C30_CursorOwnership ==
    [][/\ s_uart'[kUart1].m_rxHead # s_uart[kUart1].m_rxHead
          => USART1_IRQHandler
       /\ s_uart'[kUart1].m_rxTail # s_uart[kUart1].m_rxTail
          => \E c \in Callers : Uart_Read_Step(c)
      ]_vars

\* C30, amended: m_rxHead is changed only by the receive interrupt handler
\* and m_rxTail only by Uart_Read, except that Uart_DeInit sets both to 0.
C30_CursorOwnershipButDeInit ==
    [][/\ s_uart'[kUart1].m_rxHead # s_uart[kUart1].m_rxHead
          => \/ USART1_IRQHandler
             \/ /\ \E c \in Contexts : Uart_DeInit(c, kUart1)
                /\ s_uart'[kUart1].m_rxHead = 0
       /\ s_uart'[kUart1].m_rxTail # s_uart[kUart1].m_rxTail
          => \/ \E c \in Callers : Uart_Read_Step(c)
             \/ /\ \E c \in Contexts : Uart_DeInit(c, kUart1)
                /\ s_uart'[kUart1].m_rxTail = 0
      ]_vars

\* A Uart_DeInit that found the read cursor moved by Uart_Read, behind a
\* write cursor moved by the interrupt handler, and set both to 0.
C30_Witness ==
    \E c \in Contexts :
        /\ Finished(c, "deinit") /\ app[c].retB
        /\ app[c].preTail # 0
        /\ hist.copied[kUart1] > 0
        /\ s_uart[kUart1].m_rxHead = 0
        /\ s_uart[kUart1].m_rxTail = 0

\* C31: in every state in which m_isInit of a channel is false, both of its
\* cursors are 0 and its ring buffer is all zero.
C31_UninitIsClean ==
    \A i \in Instances :
        ~s_uart[i].m_isInit
            => /\ s_uart[i].m_rxHead = 0
               /\ s_uart[i].m_rxTail = 0
               /\ s_uart[i].m_rx = ZeroRx

\* C32: whenever the interrupt handler of an instance runs with TC set and
\* with TE and TCIE set, TC is clear when the handler returns, also when
\* RXNE is set at that invocation.
C32_TcCleared ==
    [][\A i \in Instances :
        (IRQHandler(i) /\ usart[i].TE /\ usart[i].TCIE /\ usart[i].TC)
            => ~usart'[i].TC
      ]_vars

\* The hardware of instance i as lines 399-433 program it.
FullyConfigured(i) ==
    /\ usart[i].UE /\ usart[i].TE /\ usart[i].RE
    /\ usart[i].RXNEIE /\ usart[i].TCIE
    /\ ~usart[i].M /\ usart[i].STOP = 0 /\ ~usart[i].PCE
    /\ nvic[i]

\* C33: a channel whose m_isInit is set, and a channel whose Uart_Init is
\* about to set it, has UE, TE, RE, RXNEIE and TCIE set, 8 data bits, 1 stop
\* bit and no parity, and its interrupt line enabled.
C33_InitializedIsConfigured ==
    \A i \in Instances :
        (\/ s_uart[i].m_isInit
         \/ \E c \in Callers : /\ app[c].op = "init"
                                /\ app[c].pc = "init_flag"
                                /\ app[c].inst = i)
            => FullyConfigured(i)

\* UART3 brought up again after a Uart_DeInit.
C33_Witness ==
    \E c \in Contexts :
        /\ Finished(c, "init") /\ app[c].retB
        /\ app[c].inst = kUart3
        /\ app[c].preLast = "deinit"
        /\ s_uart[kUart3].m_isInit
        /\ FullyConfigured(kUart3)

\* Handler and register block of every instance but i are left as they are.
OthersUntouched(i) ==
    \A j \in Instances \ {i} :
        s_uart'[j] = s_uart[j] /\ usart'[j] = usart[j]

\* C34: a step of an operation on instance i and a run of the interrupt
\* handler of instance i change neither the handler nor the registers of
\* another instance, and the byte the handler appends is the one in the
\* data register of instance i.
C34_Isolation ==
    [][/\ \A c \in Callers :
            app'[c] # app[c] => OthersUntouched(app'[c].inst)
       /\ \A i \in Instances :
            IRQHandler(i)
               => /\ OthersUntouched(i)
                  /\ s_uart'[i].m_rxHead # s_uart[i].m_rxHead
                        => s_uart'[i].m_rx[s_uart[i].m_rxHead] = usart[i].DR
      ]_vars

\* The USARTx_REMAP field of AFIO->MAPR that belongs to an instance.
RemapField(m, instance) ==
    IF instance = kUart1 THEN m.r1
    ELSE IF instance = kUart2 THEN m.r2
    ELSE m.r3

\* C35: after a successful Uart_Init of an instance with a mapping of its
\* legal subset, whatever Uart_Init and Uart_DeInit calls came before, the
\* remap field of the instance has the value the same Uart_Init gives it
\* from the reset value of AFIO->MAPR.
C35_RemapConsistent ==
    \A c \in Contexts :
        (/\ Finished(c, "init") /\ app[c].retB
         /\ app[c].pins \in LegalMappings(app[c].inst))
            => RemapField(afioMapr, app[c].inst)
                  = RemapField(Remap([r1 |-> 0, r2 |-> 0, r3 |-> 0],
                                     app[c].pins),
                               app[c].inst)

\* ------------------------------------------------------------------------
\* Two readers of UART1: Uart_Read called from main() and from a context
\* that preempts it between the increment of m_rxTail (line 540) and its
\* reduction (line 541), with receive interrupts in between.
\* ------------------------------------------------------------------------
NestRx == 3

InitNest == ChannelReady(UART_RX_BUFFER_SIZE - 2, NestRx)

NextNest ==
    \/ HwReceive(kUart1)
    \/ USART1_IRQHandler
    \/ Uart_Read_Check("main", kUart1, TRUE, 1)
    \/ app["main"].pc = "read_wrap" /\ Uart_Read_Check("task", kUart1, TRUE, 1)
    \/ \E c \in Callers : Uart_Read_Step(c)
    \/ \E c \in Callers : Return(c)

SpecNest == InitNest /\ [][NextNest]_vars

\* Inside the copy loop of Uart_Read on instance i, after the increment of
\* m_rxTail (line 540) and before its reduction (line 541).
BetweenIncrementAndModulo(i) ==
    \E c \in Callers : /\ app[c].op = "read" /\ app[c].inst = i
                        /\ app[c].pc = "read_wrap"

\* C36: every index used to read or write m_rx is in 0..255, and the
\* cursors are in 0..255 in every state, except m_rxTail between its
\* increment and its modulo reduction inside Uart_Read.
C36_IndexSafety ==
    \A i \in Instances :
        /\ ~hist.strayIndex[i]
        /\ s_uart[i].m_rxHead \in RingIndex
        /\ \/ s_uart[i].m_rxTail \in RingIndex
           \/ BetweenIncrementAndModulo(i)

\* No call of a driver operation on instance i is in progress (interrupt
\* handlers run to completion within one step).
Quiescent(i) ==
    \A c \in Callers : app[c].pc \in {"idle", "done"} \/ app[c].inst # i

LiveSend ==
    /\ SpecSend
    /\ WF_vars(\E c \in Contexts : Uart_Send_Step(c))
    /\ WF_vars(USART1_IRQHandler)
    /\ WF_vars(SysTick_Handler)

\* Uart_Send is in its loop on UART1 and the transmitter will never raise
\* TXE.
SendWaitsOnSilentTxe ==
    \E c \in Contexts :
        /\ app[c].op = "send" /\ app[c].inst = kUart1
        /\ app[c].pc \in {"send_txe", "send_while"}
        /\ ~usart[kUart1].TXE /\ line.txeAt[kUart1] = Never

SendReturnedFalse ==
    \E c \in Contexts : Finished(c, "send") /\ ~app[c].retB

\* C38: if SysTick_Init is never called, a Uart_Send on an initialized
\* channel whose hardware never reports TXE still eventually returns
\* false.
C38_TimeoutWithoutTick ==
    ([]~s_sysTick.m_isInit) => (SendWaitsOnSilentTxe ~> SendReturnedFalse)

=============================================================================
